---- MODULE Spec2Model ----
(***************************************************************************)
(* Model of the applicant tracker: json_automation.py (compress and        *)
(* decompress), shortlist_automation.py (shortlist_applicant) and the      *)
(* command dispatch of main.py, over an abstract table store.              *)
(*                                                                         *)
(* The store is the external collaborator.  A table is a function from     *)
(* record ids to field maps; a field map holds only the non-empty fields   *)
(* (the store returns no key for an empty cell).  The applicant's link     *)
(* fields are the reciprocal of the children's "Applicant ID" link field:  *)
(* linking a child appends it to the applicant's field, and deleting a     *)
(* record removes it from every link field.                                *)
(*                                                                         *)
(* Every invocation is one atomic action (the programs are synchronous and *)
(* single threaded); the store calls that raise during an invocation are   *)
(* an input of the action, chosen among the call sites of the handler.     *)
(***************************************************************************)
EXTENDS Integers, Sequences, FiniteSets, TLC

VARIABLES
    applicants,          \* "Applicants" table: Applicant ID -> record
    personal_details,    \* "Personal Details" table: record id -> fields
    work_experience,     \* "Work Experience" table: record id -> fields
    salary_preferences,  \* "Salary Preferences" table: record id -> fields
    shortlisted_leads,   \* "Shortlisted Leads" table: record id -> fields
    nextId,              \* next record id the store hands out
    last,                \* the invocation that ended last, with the store before it
    prev,                \* summary of the invocation before `last`
    nops,                \* number of commands so far
    nfaults,             \* number of store calls that raised so far
    clock,               \* the time (UTC), in ticks; every invocation takes one
    utc_offset,          \* the local time of the host minus UTC, in ticks
    all_run,             \* the `all` command under way or last run: its steps
    conc                 \* two invocations under way at once, if any

vars == <<applicants, personal_details, work_experience, salary_preferences,
          shortlisted_leads, nextId, last, prev, nops, nfaults,
          clock, utc_offset, all_run, conc>>

-----------------------------------------------------------------------------
(* Bounds of the model *)

\* invocations in one behaviour
MaxOps == 2
\* store calls that raise in one behaviour
MaxFaults == 1
\* linked records that are deleted while one compression runs
MaxGone == 1
\* lines of an LLM response
MaxLines == 4
\* the day of the runs, as a day number
Today == 3000

-----------------------------------------------------------------------------
(* Values *)

\* Python's None / JSON null is the empty tuple, a present value v is <<v>>
None == <<>>
Some(v) == <<v>>

Range(s) == {s[i] : i \in 1..Len(s)}

MaxOf(S) == CHOOSE x \in S : \A y \in S : y <= x

\* d.get(k) on a parsed JSON object: a missing key and a null both give None
Get(d, k) == IF k \in DOMAIN d THEN d[k] ELSE None

\* fields.get(k) on a store record's field map
FieldGet(f, k) == IF k \in DOMAIN f THEN Some(f[k]) ELSE None

\* the empty JSON object {} (falsy in Python)
EmptyObj == <<>>

\* Python truthiness of a parsed JSON object
Truthy(obj) == DOMAIN obj # {}

\* snapshot key -> store column, per table
PersonalCol == [name |-> "Full Name", email |-> "Email",
                location |-> "Location", linkedin |-> "LinkedIn"]

SalaryCol == [preferred_rate |-> "Preferred Rate", minimum_rate |-> "Minimum Rate",
              currency |-> "Currency", availability_hrs_wk |-> "Availability (hrs/wk)"]

ExperienceCol == [company |-> "Company", title |-> "Title",
                  start_date |-> "Start Date", end_date |-> "End Date",
                  technologies |-> "Technologies"]

-----------------------------------------------------------------------------
(* The "Compressed JSON" text field *)

EmptyDoc == [personal |-> EmptyObj, experience |-> <<>>, salary |-> EmptyObj]

\* no text in the field
NoSnapshot == [kind |-> "none", doc |-> EmptyDoc]
\* text that is not JSON
Malformed == [kind |-> "malformed", doc |-> EmptyDoc]
\* valid JSON that is not an object, such as [] or 3
NotObject == [kind |-> "notobject", doc |-> EmptyDoc]

\* json.dumps(compressed_data, indent=2)
JsonDumps(d) == [kind |-> "doc", doc |-> d]

LoadsAnything(text) == [res |-> "ok", data |-> text.doc]

\* json.loads: "error" is JSONDecodeError, "other" a value that has no .get
JsonLoads(text) ==
    CASE text.kind = "malformed" -> [res |-> "error", data |-> EmptyDoc]
      [] text.kind = "notobject" -> [res |-> "other", data |-> EmptyDoc]
      [] OTHER -> [res |-> "ok", data |-> text.doc]

-----------------------------------------------------------------------------
(* Store calls *)

\* a cell written with an empty list is an empty cell: the store returns no
\* key for it ("Technologies" is the only list-valued column written)
StoreFields(f) ==
    [k \in {c \in DOMAIN f : ~(c = "Technologies" /\ f[c] = <<>>)} |-> f[k]]

UpdateReplacing(old, new) == StoreFields(new)

\* table.update(id, fields): only the fields given are written
StoreUpdate(old, new) ==
    StoreFields([k \in DOMAIN old \cup DOMAIN new |->
                    IF k \in DOMAIN new THEN new[k] ELSE old[k]])

\* applicants_table.update(id, {"Compressed JSON": text}); the store keeps in
\* "Last Modified" the time of the last change of the snapshot text
StoreWriteSnapshot(rec, text) ==
    [rec EXCEPT !.json = text,
                !.last_modified = IF text = rec.json THEN @ ELSE Some(clock)]

\* table.create(fields)
StoreCreate(tbl, id, new) == tbl @@ (id :> StoreFields(new))

\* table.batch_delete(ids)
StoreDelete(tbl, ids) == [i \in DOMAIN tbl \ ids |-> tbl[i]]

\* a link field without the deleted records
Unlink(links, ids) == SelectSeq(links, LAMBDA i : i \notin ids)

-----------------------------------------------------------------------------
(* json_automation.py: helpers *)

get_first_linked_record_id(linked_field_value) ==
    IF Len(linked_field_value) > 0 THEN Some(linked_field_value[1]) ELSE None

get_all_linked_record_ids(linked_field_value) ==
    [n \in 1..Len(linked_field_value) |-> linked_field_value[n]]

\* {k: v for k, v in new_fields.items() if v is not None}
NonNullFields(data, col) ==
    [c \in {col[k] : k \in {x \in DOMAIN col : Get(data, x) # None}} |->
        Get(data, CHOOSE k \in DOMAIN col : col[k] = c)[1]]

-----------------------------------------------------------------------------
(* The record of one invocation *)

Store == [applicants |-> applicants, personal_details |-> personal_details,
          work_experience |-> work_experience,
          salary_preferences |-> salary_preferences,
          shortlisted_leads |-> shortlisted_leads, nextId |-> nextId]

\* what an invocation that touched nothing reports
Untouched(ret) ==
    [ret |-> ret, store |-> Store,
     sections |-> {},        \* sections of the snapshot the handler went through
     weCreated |-> {}, weDeleted |-> {}, pdCreated |-> {}, spCreated |-> {},
     status |-> "",          \* the Shortlist Status the handler wrote, if any
     criteria |-> <<>>,      \* the three criteria, once evaluated
     reason |-> <<>>,        \* the score reasons the handler logged, if any
     returned |-> <<>>,      \* the store's answer to the Work Experience lookup
     compressed |-> <<>>,    \* the snapshot a compression built
     calls |-> 0,            \* LLM calls made
     sleeps |-> <<>>,        \* the delays slept, in order
     leadCreated |-> {}, leadUpdated |-> {}]

\* main.py: the exit code of a single command from the handler's result
\* ("raise": the exception leaves main, the interpreter exits with 1)
MainExit(ret) ==
    CASE ret = "raise" -> 1
      [] ret = "True" -> 0
      [] OTHER -> -1

-----------------------------------------------------------------------------
(* json_automation.py: compress_applicant_data *)

\* lines 76-94: the "personal" section; a failed or empty fetch leaves {}
CompressPersonal(a, F) ==
    LET personal_record_id == get_first_linked_record_id(a.personal)
    IN  IF \/ personal_record_id = None
           \/ <<"personal_get", 0>> \in F
           \/ personal_record_id[1] \notin DOMAIN personal_details
        THEN EmptyObj
        ELSE [k \in DOMAIN PersonalCol |->
                FieldGet(personal_details[personal_record_id[1]], PersonalCol[k])]

\* lines 107-114: one entry of the "experience" array
ExperienceEntry(fields) ==
    [company |-> FieldGet(fields, "Company"),
     title |-> FieldGet(fields, "Title"),
     start_date |-> FieldGet(fields, "Start Date"),
     end_date |-> FieldGet(fields, "End Date"),
     technologies |-> IF "Technologies" \in DOMAIN fields
                      THEN Some(fields["Technologies"]) ELSE Some(<<>>)]

InReturnedOrder(a, F, returned) ==
    IF a.work = <<>> \/ <<"we_fetch", 0>> \in F THEN <<>>
    ELSE [n \in 1..Len(returned) |-> ExperienceEntry(work_experience[returned[n]])]

\* lines 96-122: `returned` lists the ids of the records in the store's
\* answer to the batched lookup, in the order of the answer; the records are
\* put in a map by id and emitted in the order of the link field, and an id
\* the answer lacks is left out
CompressExperience(a, F, returned) ==
    LET work_experience_linked_ids == get_all_linked_record_ids(a.work)
        work_records_map == [i \in Range(returned) |-> work_experience[i]]
        found == SelectSeq(work_experience_linked_ids,
                           LAMBDA link_id : link_id \in DOMAIN work_records_map)
    IN  IF work_experience_linked_ids = <<>> \/ <<"we_fetch", 0>> \in F
        THEN <<>>
        ELSE [n \in 1..Len(found) |-> ExperienceEntry(work_records_map[found[n]])]

\* lines 124-141: the "salary" section
SalaryDespiteFailure(a, F) ==
    IF a.salary = <<>> THEN EmptyObj
    ELSE [k \in DOMAIN SalaryCol |->
            FieldGet(salary_preferences[a.salary[1]], SalaryCol[k])]

CompressSalary(a, F) ==
    LET salary_record_id == get_first_linked_record_id(a.salary)
    IN  IF \/ salary_record_id = None
           \/ <<"salary_get", 0>> \in F
           \/ salary_record_id[1] \notin DOMAIN salary_preferences
        THEN EmptyObj
        ELSE [k \in DOMAIN SalaryCol |->
                FieldGet(salary_preferences[salary_record_id[1]], SalaryCol[k])]

\* lines 62-150; F is the set of store calls that raise and `returned` the
\* store's answer to the lookup of the Work Experience records.  A linked
\* record the answer lacks was deleted by another user of the base after the
\* applicant was read at line 64: the store no longer has it.
compress_applicant_data(id, F, returned) ==
    IF <<"lookup", 0>> \in F THEN Untouched("raise")
    ELSE IF id \notin DOMAIN applicants THEN Untouched("False")
    ELSE
        LET a == applicants[id]
            fetched == a.work # <<>> /\ <<"we_fetch", 0>> \notin F
            gone == IF fetched THEN Range(a.work) \ Range(returned) ELSE {}
            compressed_data == [personal |-> CompressPersonal(a, F),
                                experience |-> CompressExperience(a, F, returned),
                                salary |-> CompressSalary(a, F)]
            read == [Untouched("False") EXCEPT
                       !.store.work_experience = StoreDelete(@, gone),
                       !.store.applicants[id].work = Unlink(@, gone),
                       !.returned = IF fetched THEN returned ELSE <<>>,
                       !.compressed = compressed_data]
        IN  IF <<"write", 0>> \in F THEN read
            ELSE [read EXCEPT
                    !.ret = "True",
                    !.store.applicants[id] =
                        StoreWriteSnapshot(@, JsonDumps(compressed_data))]

-----------------------------------------------------------------------------
(* json_automation.py: decompress_applicant_data *)

\* lines 178-203 and 270-294: update the linked record in place, or create
\* one and link it; an exception of the upsert is caught and logged, and so
\* is an exception of the linking call (lines 171-176)
UpsertSection(tbl, links, data, col, next, upsertFails, linkFails) ==
    LET new_fields == NonNullFields(data, col)
        linked_id == get_first_linked_record_id(links)
        same == [tbl |-> tbl, links |-> links, next |-> next, created |-> {}]
    IN  IF ~Truthy(data) THEN same
        ELSE IF upsertFails THEN same
        ELSE IF linked_id # None
        THEN IF linked_id[1] \in DOMAIN tbl
             THEN [same EXCEPT !.tbl[linked_id[1]] = StoreUpdate(@, new_fields)]
             ELSE same
        ELSE [tbl |-> StoreCreate(tbl, next, new_fields),
              links |-> IF linkFails THEN links ELSE Append(links, next),
              next |-> next + 1,
              created |-> {next}]

\* the (company, title) pair of a store record
ExperienceKey(fields) == <<FieldGet(fields, "Company"), FieldGet(fields, "Title")>>

\* lines 218-221: a dict comprehension over the store's answer, so of two
\* records with the same pair the one the store lists later stays
current_experience_map(records, tbl) ==
    [key \in {ExperienceKey(tbl[records[n]]) : n \in 1..Len(records)} |->
        records[MaxOf({n \in 1..Len(records) :
                          ExperienceKey(tbl[records[n]]) = key})]]

\* lines 225-257: the loop over the snapshot's entries, from entry n on;
\* st holds the table, the applicant's link field, the next id and the ids
\* marked processed
RECURSIVE ReconcileFrom(_, _, _, _, _)
ReconcileFrom(n, experience_data, map, F, st) ==
    IF n > Len(experience_data) THEN st
    ELSE
        LET exp_item == experience_data[n]
            company == Get(exp_item, "company")
            title == Get(exp_item, "title")
            key == <<company, title>>
            new_exp_fields == NonNullFields(exp_item, ExperienceCol)
            after ==
                IF company = None \/ title = None THEN st
                ELSE IF <<"we_upsert", n>> \in F THEN st
                ELSE IF key \in DOMAIN map
                THEN [st EXCEPT
                        !.tbl[map[key]] = StoreUpdate(@, new_exp_fields),
                        !.processed = @ \cup {map[key]}]
                ELSE [st EXCEPT
                        !.tbl = StoreCreate(@, st.next, new_exp_fields),
                        !.links = IF <<"we_link", n>> \in F
                                  THEN @ ELSE Append(@, st.next),
                        !.next = @ + 1,
                        !.processed = @ \cup {st.next},
                        !.created = @ \cup {st.next}]
        IN  ReconcileFrom(n + 1, experience_data, map, F, after)

\* lines 259-262
to_delete_ids(linked_ids, processed_experience_ids) ==
    {rec_id \in Range(linked_ids) : rec_id \notin processed_experience_ids}

\* lines 205-268: the Work Experience reconciliation; `order` is the order in
\* which the store lists the linked records in its answer to the lookup
DecompressExperience(a, experience_data, F, order, next) ==
    LET current_linked_experience_ids_from_applicant ==
            get_all_linked_record_ids(a.work)
        current_experience_records ==
            IF current_linked_experience_ids_from_applicant = <<>>
               \/ <<"we_fetch", 0>> \in F
            THEN <<>> ELSE order
        map == current_experience_map(current_experience_records, work_experience)
        done == ReconcileFrom(1, experience_data, map, F,
                    [tbl |-> work_experience, links |-> a.work, next |-> next,
                     processed |-> {}, created |-> {}])
        stale == to_delete_ids(current_linked_experience_ids_from_applicant,
                               done.processed)
        deleted == IF <<"we_delete", 0>> \in F THEN {} ELSE stale
    IN  [tbl |-> StoreDelete(done.tbl, deleted),
         links |-> Unlink(done.links, deleted),
         next |-> done.next,
         created |-> done.created,
         deleted |-> deleted \cap DOMAIN work_experience]

\* lines 152-297
decompress_applicant_data(id, F, order) ==
    IF <<"lookup", 0>> \in F THEN Untouched("raise")
    ELSE IF id \notin DOMAIN applicants THEN Untouched("False")
    ELSE IF applicants[id].json.kind = "none" THEN Untouched("False")
    ELSE IF JsonLoads(applicants[id].json).res = "error" THEN Untouched("False")
    ELSE IF JsonLoads(applicants[id].json).res = "other" THEN Untouched("raise")
    ELSE
        LET a == applicants[id]
            data == JsonLoads(a.json).data
            P == UpsertSection(personal_details, a.personal, data.personal,
                               PersonalCol, nextId,
                               <<"personal_upsert", 0>> \in F,
                               <<"personal_link", 0>> \in F)
            W == DecompressExperience(a, data.experience, F, order, P.next)
            S == UpsertSection(salary_preferences, a.salary, data.salary,
                               SalaryCol, W.next,
                               <<"salary_upsert", 0>> \in F,
                               <<"salary_link", 0>> \in F)
        IN  [Untouched("True") EXCEPT
                 !.store.applicants[id].personal = P.links,
                 !.store.applicants[id].work = W.links,
                 !.store.applicants[id].salary = S.links,
                 !.store.personal_details = P.tbl,
                 !.store.work_experience = W.tbl,
                 !.store.salary_preferences = S.tbl,
                 !.store.nextId = S.next,
                 !.sections = {"personal", "experience", "salary"},
                 !.weCreated = W.created, !.weDeleted = W.deleted,
                 !.pdCreated = P.created, !.spCreated = S.created]

\* the orders in which the store may list the records S
Orders(S) == {s \in [1..Cardinality(S) -> S] : Range(s) = S}

-----------------------------------------------------------------------------
(* shortlist_automation.py *)

TIER_1_COMPANIES ==
    <<"Google", "Meta", "OpenAI", "Microsoft", "Amazon", "Apple", "Netflix", "Tesla">>

APPROVED_LOCATIONS == {"us", "canada", "uk", "germany", "india"}

\* str.lower() on the company names of the model
Lower(str) ==
    CASE str = "Google" -> "google"    [] str = "GOOGLE" -> "google"
      [] str = "Meta" -> "meta"        [] str = "OpenAI" -> "openai"
      [] str = "Microsoft" -> "microsoft" [] str = "Amazon" -> "amazon"
      [] str = "Apple" -> "apple"      [] str = "Netflix" -> "netflix"
      [] str = "Tesla" -> "tesla"      [] str = "Acme" -> "acme"
      [] str = "Initech" -> "initech"  [] str = "Globex" -> "globex"
      [] OTHER -> str

\* the approved keywords that are substrings of location.lower(), for the
\* locations of the model ("austin, us" and "moscow, russia" hold "us")
KeywordsIn(location) ==
    CASE location = "Austin, US" -> {"us"}
      [] location = "Berlin, Germany" -> {"germany"}
      [] location = "London, UK or Canada" -> {"uk", "canada"}
      [] location = "Moscow, Russia" -> {"us"}
      [] OTHER -> {}

\* Python floats (IEEE 754 doubles), for the values total_years takes: a
\* double of at least 2^-9 is a whole number of units of 2^-61, kept as five
\* limbs of 15 bits, least significant first (values below 2^14)
LimbBase == 2^15
FloatZero == <<0, 0, 0, 0, 0>>

\* the limbs of a number given by digits that may exceed the base
RECURSIVE Carry(_, _, _)
Carry(raw, i, c) ==
    IF i > Len(raw) THEN <<>>
    ELSE <<(raw[i] + c) % LimbBase>> \o Carry(raw, i + 1, (raw[i] + c) \div LimbBase)

RECURSIVE BitLen(_)
BitLen(n) == IF n = 0 THEN 0 ELSE 1 + BitLen(n \div 2)

\* the number of significant bits of x
BitLength(x) ==
    LET used == {i \in 1..Len(x) : x[i] # 0}
    IN  IF used = {} THEN 0
        ELSE 15 * (MaxOf(used) - 1) + BitLen(x[MaxOf(used)])

\* round-to-nearest, ties-to-even, to 53 significant bits, of the number
\* x + rnum / rden units (0 <= rnum < rden)
RoundToDouble(x, rnum, rden) ==
    LET k == BitLength(x) - 53
    IN  IF k < 0 THEN x
        ELSE LET low == x[1] % (2^k)
                 odd == (x[1] \div (2^k)) % 2 = 1
                 up == IF k = 0
                       THEN 2 * rnum > rden \/ (2 * rnum = rden /\ odd)
                       ELSE \/ low > 2^(k - 1)
                            \/ low = 2^(k - 1) /\ (rnum > 0 \/ odd)
             IN  Carry([x EXCEPT ![1] = @ - low + (IF up THEN 2^k ELSE 0)], 1, 0)

\* the limbs, least significant first, of the quotient of rem * 2^(15 n) by
\* 1461, and the remainder
RECURSIVE DivSteps(_, _)
DivSteps(rem, n) ==
    IF n = 0 THEN [q |-> <<>>, r |-> rem]
    ELSE LET rest == DivSteps((rem * LimbBase) % 1461, n - 1)
         IN  [q |-> rest.q \o <<(rem * LimbBase) \div 1461>>, r |-> rest.r]

\* line 61: duration.days / 365.25, the double nearest to 4 days / 1461
\* (4 days * 2^61 = 8 days * 2^60 units)
DaysToYears(days) ==
    LET low == DivSteps((8 * days) % 1461, 4)
    IN  RoundToDouble(low.q \o <<(8 * days) \div 1461>>, low.r, 1461)

\* line 61: total_years += ..., the double nearest to the sum
FloatAdd(x, y) ==
    RoundToDouble(Carry([i \in 1..5 |-> x[i] + y[i]], 1, 0), 0, 1)

\* line 100: total_experience_years >= 4 (4.0 is 2^63 units)
AtLeastFour(x) == x[5] >= 8

\* a date string that strptime rejects; the other dates are day numbers
BadDate == -1

\* lines 53-66: the days one entry adds to the total
EntryDays(exp, now) ==
    LET start_date_str == Get(exp, "start_date")
        end_date_str == Get(exp, "end_date")
    IN  IF start_date_str = None THEN 0
        ELSE IF start_date_str[1] = BadDate THEN 0
        ELSE IF end_date_str # None /\ end_date_str[1] = BadDate THEN 0
        ELSE LET start == start_date_str[1]
                 end == IF end_date_str # None THEN end_date_str[1] ELSE now
             IN  IF start > end THEN 0 ELSE end - start

\* lines 49-52
IsTier1(exp) ==
    LET company == Get(exp, "company")
    IN  /\ company # None
        /\ \E n \in 1..Len(TIER_1_COMPANIES) :
              Lower(TIER_1_COMPANIES[n]) = Lower(company[1])

\* lines 43-67: the loop adds the entries to total_years from the first to
\* the last (an entry that is skipped adds nothing, as adding 0.0 does)
RECURSIVE calculate_experience_years(_, _)
calculate_experience_years(experience_list, now) ==
    IF experience_list = <<>>
    THEN [total_years |-> FloatZero, tier_1_company_present |-> FALSE]
    ELSE LET before == calculate_experience_years(
                           SubSeq(experience_list, 1, Len(experience_list) - 1), now)
             exp == experience_list[Len(experience_list)]
         IN  [total_years |-> FloatAdd(before.total_years,
                                       DaysToYears(EntryDays(exp, now))),
              tier_1_company_present |-> IsTier1(exp) \/ before.tier_1_company_present]

\* line 100: (total_experience_years >= 4) or tier_1_company_present
experience_criteria_met(years) ==
    AtLeastFour(years.total_years) \/ years.tier_1_company_present

IgnoringAvailability(salary_data) ==
    /\ Get(salary_data, "preferred_rate") # None
    /\ Get(salary_data, "currency") = Some("USD")
    /\ Get(salary_data, "preferred_rate")[1] <= 100

\* lines 111-142: compensation_criteria_met_individual starts True; the rate
\* branch (117-128) and the availability branch (129-136) each clear it
compensation_criteria_met(salary_data) ==
    LET preferred_rate == Get(salary_data, "preferred_rate")
        currency == Get(salary_data, "currency")
        availability == Get(salary_data, "availability_hrs_wk")
        after_rate == IF preferred_rate # None /\ currency = Some("USD")
                      THEN (IF preferred_rate[1] <= 100 THEN TRUE ELSE FALSE)
                      ELSE FALSE
    IN  IF availability # None /\ availability[1] >= 20 THEN after_rate ELSE FALSE

\* lines 144-152: the keywords the loop can stop at, by the order in which
\* the set APPROVED_LOCATIONS is iterated
LocationMatches(personal_data) ==
    LET applicant_location == Get(personal_data, "location")
    IN  IF applicant_location = None THEN {}
        ELSE KeywordsIn(applicant_location[1]) \cap APPROVED_LOCATIONS

IgnoringLocation(exp, comp, loc) == exp /\ comp

IgnoringCriteria(exp, comp, loc) == TRUE

\* lines 97, 107, 141, 156: is_shortlisted starts True and every failed
\* criterion clears it
is_shortlisted(exp, comp, loc) == exp /\ comp /\ loc

\* lines 96-157: "; ".join(score_reasons), as the values the text is built of
ScoreReason(years, salary_data, personal_data, crit, matched) ==
    [experience |-> [prefix |-> IF crit.experience THEN "Experience: "
                                ELSE "FAILED: Experience ",
                     passed |-> crit.experience, years |-> years.total_years,
                     tier1 |-> years.tier_1_company_present],
     compensation |-> [prefix |-> IF crit.compensation THEN "Compensation: "
                                  ELSE "FAILED: Compensation - ",
                       passed |-> crit.compensation,
                       preferred_rate |-> Get(salary_data, "preferred_rate"),
                       currency |-> Get(salary_data, "currency"),
                       availability |-> Get(salary_data, "availability_hrs_wk")],
     location |-> [prefix |-> IF crit.location THEN "Location: "
                              ELSE "FAILED: Location ",
                   passed |-> crit.location,
                   location |-> Get(personal_data, "location"),
                   matched |-> matched]]

AnyLead(id) == DOMAIN shortlisted_leads

\* the Lead records the formula {Applicant_ref} = '<Applicant ID>' selects
LeadsOf(id) == {l \in DOMAIN shortlisted_leads : shortlisted_leads[l].Applicant_ref = id}

AlwaysCreateLead(id, fields, F) ==
    IF <<"lead_write", 0>> \in F THEN [leads |-> shortlisted_leads, next |-> nextId,
                                      created |-> {}, updated |-> {}, ret |-> "False"]
    ELSE [leads |-> shortlisted_leads @@ (nextId :> fields), next |-> nextId + 1,
          created |-> {nextId}, updated |-> {}, ret |-> "True"]

RecreateLead(id, fields, F) ==
    IF <<"lead_write", 0>> \in F THEN [leads |-> shortlisted_leads, next |-> nextId,
                                      created |-> {}, updated |-> {}, ret |-> "False"]
    ELSE [leads |-> StoreDelete(shortlisted_leads, LeadsOf(id)) @@ (nextId :> fields),
          next |-> nextId + 1, created |-> {nextId}, updated |-> {}, ret |-> "True"]

\* lines 164-186: update the Lead that references the applicant, or create one
UpsertLead(id, fields, F) ==
    LET existing_shortlist == LeadsOf(id)
        same == [leads |-> shortlisted_leads, next |-> nextId,
                 created |-> {}, updated |-> {}, ret |-> "False"]
    IN  IF <<"lead_write", 0>> \in F THEN same
        ELSE IF existing_shortlist # {}
        THEN LET first == CHOOSE l \in existing_shortlist :
                              \A m \in existing_shortlist : l <= m
             IN  [same EXCEPT !.leads[first] = fields, !.updated = {first},
                              !.ret = "True"]
        ELSE [same EXCEPT !.leads = shortlisted_leads @@ (nextId :> fields),
                          !.next = nextId + 1, !.created = {nextId},
                          !.ret = "True"]

\* lines 69-186; `matched` is the keyword the location loop stopped at
\* ("None" when it found none) and `now` the day of the run
shortlist_applicant(id, F, matched, now) ==
    IF <<"lookup", 0>> \in F THEN Untouched("raise")
    ELSE IF id \notin DOMAIN applicants THEN Untouched("False")
    ELSE IF applicants[id].json.kind = "none"
    THEN IF <<"status_write", 0>> \in F THEN Untouched("raise")
         ELSE [Untouched("False") EXCEPT
                 !.store.applicants[id].status = "Incomplete Data",
                 !.status = "Incomplete Data"]
    ELSE IF JsonLoads(applicants[id].json).res = "error"
    THEN IF <<"status_write", 0>> \in F THEN Untouched("raise")
         ELSE [Untouched("False") EXCEPT
                 !.store.applicants[id].status = "JSON Error",
                 !.status = "JSON Error"]
    ELSE IF JsonLoads(applicants[id].json).res = "other" THEN Untouched("raise")
    ELSE
        LET a == applicants[id]
            data == JsonLoads(a.json).data
            years == calculate_experience_years(data.experience, now)
            crit == [experience |-> experience_criteria_met(years),
                     compensation |-> compensation_criteria_met(data.salary),
                     location |-> matched # "None"]
            shortlisted == is_shortlisted(crit.experience, crit.compensation,
                                          crit.location)
            new_status == IF shortlisted THEN "Shortlisted" ELSE "Not Shortlisted"
            score_reasons == ScoreReason(years, data.salary, data.personal, crit, matched)
            fields_to_upsert ==
                [Applicant_ref |-> id, json |-> a.json, reason |-> score_reasons]
            written == [Untouched("None") EXCEPT
                          !.store.applicants[id].status = new_status,
                          !.status = new_status, !.criteria = crit,
                          !.reason = score_reasons]
        IN  IF <<"status_write", 0>> \in F
            THEN [Untouched("raise") EXCEPT !.criteria = crit]
            ELSE IF ~shortlisted THEN written
            ELSE IF <<"leads_lookup", 0>> \in F THEN [written EXCEPT !.ret = "raise"]
            ELSE LET L == UpsertLead(id, fields_to_upsert, F)
                 IN  [written EXCEPT
                        !.store.shortlisted_leads = L.leads,
                        !.store.nextId = L.next,
                        !.leadCreated = L.created, !.leadUpdated = L.updated,
                        !.ret = L.ret]

-----------------------------------------------------------------------------
(* llm_automation.py *)

MAX_RETRIES == 3
INITIAL_BACKOFF_DELAY == 1

\* A line of the response, stripped: `head` is the label its lower-case form
\* starts with ("summary:", "score:", "issues:", "follow-ups:"), "bullet" for
\* a line that starts with the bullet character, "text" otherwise; `rest` is
\* what follows the label, stripped; `text` is the whole line.
Line(head, rest, text) == [head |-> head, rest |-> rest, text |-> text]

ScoreOrZero(score_str) ==
    CASE score_str = "8" -> Some(8)
      [] score_str = "10" -> Some(10)
      [] OTHER -> Some(0)

\* int(score_str), for the score strings of the model (None: ValueError)
ParseInt(score_str) ==
    CASE score_str = "8" -> Some(8)
      [] score_str = "10" -> Some(10)
      [] OTHER -> None

\* lines 62-89: the state of the loop after the lines up to the n-th; the
\* summary is its pieces (joined by blanks), the follow-ups their lines
RECURSIVE ParseLines(_, _)
ParseLines(lines, n) ==
    IF n = 0
    THEN [summary |-> <<>>, score |-> None, issues |-> "None", follow_ups |-> <<>>,
          capture_summary |-> FALSE, capture_follow_ups |-> FALSE]
    ELSE LET st == ParseLines(lines, n - 1)
             line == lines[n]
         IN  CASE line.head = "summary:" ->
                    [st EXCEPT !.summary = IF line.rest = "" THEN <<>> ELSE <<line.rest>>,
                               !.capture_summary = TRUE,
                               !.capture_follow_ups = FALSE]
               [] line.head = "score:" ->
                    [st EXCEPT !.score = ParseInt(line.rest),
                               !.capture_summary = FALSE,
                               !.capture_follow_ups = FALSE]
               [] line.head = "issues:" ->
                    [st EXCEPT !.issues = line.rest,
                               !.capture_summary = FALSE,
                               !.capture_follow_ups = FALSE]
               [] line.head = "follow-ups:" ->
                    [st EXCEPT !.capture_follow_ups = TRUE,
                               !.capture_summary = FALSE]
               [] OTHER ->
                    IF st.capture_summary
                    THEN [st EXCEPT !.summary = Append(@, line.text)]
                    ELSE IF st.capture_follow_ups /\ line.head = "bullet"
                    THEN [st EXCEPT !.follow_ups = Append(@, line.text)]
                    ELSE IF st.capture_follow_ups
                    THEN [st EXCEPT !.capture_follow_ups = FALSE]
                    ELSE st

\* lines 53-95
parse_llm_response(response_text) ==
    LET st == ParseLines(response_text, Len(response_text))
    IN  [summary |-> st.summary, score |-> st.score, issues |-> st.issues,
         follow_ups |-> st.follow_ups]

\* One call of groq_client.chat.completions.create ends in
\*   "response"          a message with content (its non-empty lines),
\*   "no_content"        a message whose content is None,
\*   "status_error"      an APIError that carries a status_code
\*                       (APIStatusError: the API answered with an error),
\*   "connection_error"  an APIError without status_code
\*                       (APIConnectionError, APITimeoutError), or
\*   "other_error"       an exception that is not an APIError.
Outcome(kind, content) == [kind |-> kind, content |-> content]

RetryEverything(outcome, retries) ==
    IF outcome.kind = "response" THEN "break"
    ELSE IF retries + 1 < MAX_RETRIES THEN "retry" ELSE "False"

\* lines 154-180: what one attempt leads to, `retries` counting the failed
\* attempts before it.  Line 169 reads e.status_code to log the error: on an
\* APIError without that attribute the handler itself raises AttributeError,
\* which no clause of this try statement catches.
AfterAttempt(outcome, retries) ==
    CASE outcome.kind = "response" -> "break"
      [] outcome.kind = "status_error" ->
            IF retries + 1 < MAX_RETRIES THEN "retry" ELSE "False"
      [] outcome.kind = "connection_error" -> "raise"
      [] OTHER -> "False"

\* lines 150-180: the while loop, from the attempt after `retries` failed
\* ones; script[k] is how the k-th call ends
RECURSIVE LlmLoop(_, _, _)
LlmLoop(script, retries, delay) ==
    IF retries >= MAX_RETRIES
    THEN [end |-> "exhausted", content |-> <<>>, calls |-> 0, sleeps |-> <<>>]
    ELSE LET outcome == script[retries + 1]
             next == AfterAttempt(outcome, retries)
         IN  IF next = "retry"
             THEN LET rest == LlmLoop(script, retries + 1, delay * 2)
                  IN  [rest EXCEPT !.calls = @ + 1, !.sleeps = <<delay>> \o @]
             ELSE [end |-> next,
                   content |-> IF next = "break" THEN outcome.content ELSE <<>>,
                   calls |-> 1, sleeps |-> <<>>]

\* a timestamp text that datetime.fromisoformat rejects; the other
\* timestamps are ticks
BadTimestamp == -1
\* datetime.min
DatetimeMin == 0

\* lines 98-203; F is the set of store calls that raise, script the way the
\* LLM calls end
evaluate_applicant_with_llm(id, F, script) ==
    IF <<"lookup", 0>> \in F THEN Untouched("raise")
    ELSE IF id \notin DOMAIN applicants THEN Untouched("False")
    ELSE IF applicants[id].json.kind = "none" THEN Untouched("False")
    ELSE
        LET a == applicants[id]
            value_error == \/ a.last_modified = Some(BadTimestamp)
                           \/ a.llm_evaluated = Some(BadTimestamp)
            last_compressed_dt ==
                IF value_error THEN Some(DatetimeMin) ELSE a.last_modified
            last_llm_evaluated_dt ==
                IF value_error THEN Some(DatetimeMin) ELSE a.llm_evaluated
            L == LlmLoop(script, 0, INITIAL_BACKOFF_DELAY)
            called == [Untouched("False") EXCEPT !.calls = L.calls, !.sleeps = L.sleeps]
            parsed_outputs == parse_llm_response(L.content)
        IN  IF /\ last_llm_evaluated_dt # None /\ last_compressed_dt # None
               /\ last_llm_evaluated_dt[1] >= last_compressed_dt[1]
            THEN Untouched("True")
            ELSE IF L.end = "raise" THEN [called EXCEPT !.ret = "raise"]
            ELSE IF L.end = "False" THEN called
            ELSE IF L.content = <<>> THEN called
            ELSE IF <<"llm_write", 0>> \in F THEN called
            ELSE [called EXCEPT
                    !.ret = "True",
                    !.store.applicants[id].llm =
                        [summary |-> parsed_outputs.summary,
                         score |-> parsed_outputs.score,
                         follow_ups |-> parsed_outputs.follow_ups],
                    !.store.applicants[id].llm_evaluated = Some(clock + utc_offset)]

-----------------------------------------------------------------------------
(* Initial stores *)

\* the applicant of the model, and an identifier no applicant has
AppId == "APP001"
CallIds == {"APP001", "APP404"}

\* dates are day numbers
W_AcmeEngineer ==
    ("Company" :> "Acme" @@ "Title" :> "Engineer" @@ "Start Date" :> 0
     @@ "End Date" :> 2000 @@ "Technologies" :> <<"python">>)
\* a second record with the same (company, title)
W_AcmeEngineerAgain ==
    ("Company" :> "Acme" @@ "Title" :> "Engineer" @@ "Start Date" :> 2100)
W_GoogleSRE ==
    ("Company" :> "Google" @@ "Title" :> "SRE" @@ "Start Date" :> 1000
     @@ "End Date" :> 1500)
\* a record whose Title cell is empty
W_NoTitle == ("Company" :> "Globex" @@ "Start Date" :> 500 @@ "End Date" :> 900)

InitWork ==
    {<<>>, <<W_AcmeEngineer>>, <<W_NoTitle>>,
     <<W_AcmeEngineer, W_GoogleSRE>>, <<W_GoogleSRE, W_AcmeEngineer>>,
     <<W_AcmeEngineer, W_AcmeEngineerAgain>>}

P_Full ==
    ("Full Name" :> "Ann" @@ "Email" :> "ann@x.org" @@ "Location" :> "Austin, US"
     @@ "LinkedIn" :> "in/ann")
P_Partial == ("Full Name" :> "Bob" @@ "Location" :> "Paris")
S_Full ==
    ("Preferred Rate" :> 80 @@ "Minimum Rate" :> 60 @@ "Currency" :> "USD"
     @@ "Availability (hrs/wk)" :> 25)
S_Partial == ("Preferred Rate" :> 150 @@ "Currency" :> "EUR")

\* the linked Personal Details and Salary Preferences records, if any
InitSide == {<<>>, <<P_Full, S_Full>>, <<P_Partial, S_Partial>>}

\* snapshot objects, as an editor of the JSON text may leave them
J_PersonalNulls == [name |-> None, email |-> None, location |-> None, linkedin |-> None]
J_PersonalEdit ==
    [name |-> Some("Ann B"), email |-> None, location |-> Some("Berlin, Germany"),
     linkedin |-> None]
J_SalaryNulls ==
    [preferred_rate |-> None, minimum_rate |-> None, currency |-> None,
     availability_hrs_wk |-> None]
J_SalaryEdit ==
    [preferred_rate |-> Some(90), minimum_rate |-> None, currency |-> None,
     availability_hrs_wk |-> Some(30)]

InitJsonSide ==
    {<<EmptyObj, EmptyObj>>, <<J_PersonalNulls, J_SalaryNulls>>,
     <<J_PersonalEdit, J_SalaryEdit>>}

J_AcmeEngineer ==
    [company |-> Some("Acme"), title |-> Some("Engineer"), start_date |-> Some(100),
     end_date |-> None, technologies |-> None]
J_AcmeEngineerFull ==
    [company |-> Some("Acme"), title |-> Some("Engineer"), start_date |-> Some(0),
     end_date |-> Some(2000), technologies |-> Some(<<>>)]
J_InitechLead ==
    [company |-> Some("Initech"), title |-> Some("Lead"), start_date |-> Some(300),
     end_date |-> Some(700), technologies |-> Some(<<"go">>)]
J_NoCompany ==
    [company |-> None, title |-> Some("Intern"), start_date |-> None,
     end_date |-> None, technologies |-> None]

InitExperience ==
    {<<>>, <<J_AcmeEngineer>>, <<J_InitechLead>>, <<J_NoCompany>>,
     <<J_AcmeEngineer, J_InitechLead>>, <<J_InitechLead, J_AcmeEngineerFull>>,
     <<J_AcmeEngineer, J_AcmeEngineerFull>>}

InitJson ==
    {NoSnapshot, Malformed, NotObject}
    \cup {JsonDumps([personal |-> side[1], experience |-> e, salary |-> side[2]]) :
             side \in InitJsonSide, e \in InitExperience}

NoInvocation ==
    [op |-> "none", id |-> "", ret |-> "", exit |-> 0, faults |-> {},
     pre |-> <<>>, sections |-> {},
     weCreated |-> {}, weDeleted |-> {}, pdCreated |-> {}, spCreated |-> {},
     status |-> "", criteria |-> <<>>, reason |-> <<>>,
     leadCreated |-> {}, leadUpdated |-> {},
     cmd |-> "none", calls |-> 0, sleeps |-> <<>>, script |-> <<>>,
     returned |-> <<>>, compressed |-> <<>>]

NoSummary == [op |-> "none", id |-> "", ret |-> "", faults |-> {}, calls |-> 0]

\* no `all` command under way
Idle == [id |-> "", steps |-> <<>>, done |-> TRUE, exit |-> 0]

\* no two invocations at once
NoRun == [phase |-> "none"]

\* ids 1 and 2 are the Personal Details and Salary Preferences records,
\* ids from 3 on the Work Experience records, in the order of the link field
InitStore(work, side, json) ==
    /\ applicants = (AppId :>
            [personal |-> IF side = <<>> THEN <<>> ELSE <<1>>,
             work |-> [n \in 1..Len(work) |-> n + 2],
             salary |-> IF side = <<>> THEN <<>> ELSE <<2>>,
             json |-> json,
             status |-> "",
             last_modified |-> IF json.kind = "none" THEN None ELSE Some(0),
             llm_evaluated |-> None,
             llm |-> <<>>])
    /\ personal_details = IF side = <<>> THEN <<>> ELSE (1 :> side[1])
    /\ salary_preferences = IF side = <<>> THEN <<>> ELSE (2 :> side[2])
    /\ work_experience = [i \in 3..(Len(work) + 2) |-> work[i - 2]]
    /\ shortlisted_leads = <<>>
    /\ nextId = Len(work) + 3
    /\ last = NoInvocation
    /\ prev = NoSummary
    /\ nops = 0
    /\ nfaults = 0
    /\ clock = 1
    /\ utc_offset = 0
    /\ all_run = Idle
    /\ conc = NoRun

\* Every combination of linked Work Experience records and snapshot entries,
\* with the other two sections either to be created or to be updated; and
\* every combination of linked Personal Details / Salary Preferences records
\* and snapshot objects, with one Work Experience record and one entry; and
\* an applicant with three Work Experience records and no snapshot yet.
Init ==
    \/ \E work \in InitWork, json \in InitJson :
          /\ json.kind = "doc" => json.doc.personal = J_PersonalEdit
          /\ \E side \in {<<>>, <<P_Full, S_Full>>} : InitStore(work, side, json)
    \/ \E side \in InitSide, json \in InitJson :
          /\ json.kind = "doc"
          /\ json.doc.experience = <<J_AcmeEngineer>>
          /\ InitStore(<<W_AcmeEngineer>>, side, json)
    \/ InitStore(<<W_GoogleSRE, W_NoTitle, W_AcmeEngineer>>, <<P_Full, S_Full>>,
                 NoSnapshot)

-----------------------------------------------------------------------------
(* Actions: one invocation of a command of main.py *)

\* the sets of at most k of the calls `sites`
RECURSIVE SetsUpTo(_, _)
SetsUpTo(sites, k) ==
    IF k = 0 THEN {{}}
    ELSE LET smaller == SetsUpTo(sites, k - 1)
         IN  smaller \cup {F \cup {x} : F \in smaller, x \in sites}

FaultSets(sites) == SetsUpTo(sites, MaxFaults - nfaults)

\* the invocation takes effect: the store changes and the result is recorded;
\* cmd is the command of main.py that made it, script the answers of the LLM
Record(op, cmd, id, F, R, script) ==
    /\ applicants' = R.store.applicants
    /\ personal_details' = R.store.personal_details
    /\ work_experience' = R.store.work_experience
    /\ salary_preferences' = R.store.salary_preferences
    /\ shortlisted_leads' = R.store.shortlisted_leads
    /\ nextId' = R.store.nextId
    /\ last' = [op |-> op, id |-> id, ret |-> R.ret, exit |-> MainExit(R.ret),
                faults |-> F, pre |-> Store, sections |-> R.sections,
                weCreated |-> R.weCreated, weDeleted |-> R.weDeleted,
                pdCreated |-> R.pdCreated, spCreated |-> R.spCreated,
                status |-> R.status, criteria |-> R.criteria, reason |-> R.reason,
                leadCreated |-> R.leadCreated, leadUpdated |-> R.leadUpdated,
                cmd |-> cmd, calls |-> R.calls, sleeps |-> R.sleeps,
                script |-> script, returned |-> R.returned,
                compressed |-> R.compressed]
    /\ prev' = [op |-> last.op, id |-> last.id, ret |-> last.ret,
                faults |-> last.faults, calls |-> last.calls]
    /\ nfaults' = nfaults + Cardinality(F)
    /\ clock' = clock + 1
    /\ UNCHANGED utc_offset

\* a command of one step
Finish(op, id, F, R) ==
    /\ all_run.done
    /\ nops < MaxOps
    /\ Record(op, op, id, F, R, <<>>)
    /\ nops' = nops + 1
    /\ UNCHANGED <<all_run, conc>>

\* the store calls a compression of applicant id makes
CompressSites(id) ==
    IF id \notin DOMAIN applicants THEN {<<"lookup", 0>>}
    ELSE LET a == applicants[id]
         IN  {<<"lookup", 0>>, <<"write", 0>>}
             \cup (IF a.personal = <<>> THEN {} ELSE {<<"personal_get", 0>>})
             \cup (IF a.work = <<>> THEN {} ELSE {<<"we_fetch", 0>>})
             \cup (IF a.salary = <<>> THEN {} ELSE {<<"salary_get", 0>>})

\* the answers the store can give to the lookup of the Work Experience
\* records of applicant id: the linked records but at most MaxGone of them,
\* in any order; no answer when the lookup is not made or raises
Returned(id, F) ==
    IF \/ id \notin DOMAIN applicants
       \/ F \cap {<<"lookup", 0>>, <<"we_fetch", 0>>} # {}
    THEN {<<>>}
    ELSE UNION {Orders(Range(applicants[id].work) \ gone) :
                   gone \in SetsUpTo(Range(applicants[id].work), MaxGone)}

\* main.py lines 61-66 and 84-88: the compress command
Compress(id, F, returned) ==
    /\ nops < MaxOps
    /\ \E R \in {compress_applicant_data(id, F, returned)} :
          Finish("compress", id, F, R)

\* the store calls a decompression of applicant id can make
DecompressSites(id) ==
    IF id \notin DOMAIN applicants \/ applicants[id].json.kind # "doc"
    THEN {<<"lookup", 0>>}
    ELSE LET a == applicants[id]
             doc == a.json.doc
             keyed == {i \in 1..Len(doc.experience) :
                          /\ Get(doc.experience[i], "company") # None
                          /\ Get(doc.experience[i], "title") # None}
         IN  {<<"lookup", 0>>}
             \cup (IF Truthy(doc.personal) THEN {<<"personal_upsert", 0>>} ELSE {})
             \cup (IF Truthy(doc.personal) /\ a.personal = <<>>
                   THEN {<<"personal_link", 0>>} ELSE {})
             \cup (IF a.work = <<>> THEN {} ELSE {<<"we_fetch", 0>>, <<"we_delete", 0>>})
             \cup {<<"we_upsert", i>> : i \in keyed}
             \cup {<<"we_link", i>> : i \in keyed}
             \cup (IF Truthy(doc.salary) THEN {<<"salary_upsert", 0>>} ELSE {})
             \cup (IF Truthy(doc.salary) /\ a.salary = <<>>
                   THEN {<<"salary_link", 0>>} ELSE {})

\* the linked Work Experience records the store can list
LinkedExisting(id) ==
    IF id \in DOMAIN applicants
    THEN Range(applicants[id].work) \cap DOMAIN work_experience ELSE {}

\* main.py lines 79-88: the decompress command
Decompress(id, F, order) ==
    /\ nops < MaxOps
    /\ \E R \in {decompress_applicant_data(id, F, order)} :
          Finish("decompress", id, F, R)

\* the store calls a shortlisting of applicant id can make
ShortlistSites(id) ==
    IF id \notin DOMAIN applicants THEN {<<"lookup", 0>>}
    ELSE IF applicants[id].json.kind # "doc" THEN {<<"lookup", 0>>, <<"status_write", 0>>}
    ELSE {<<"lookup", 0>>, <<"status_write", 0>>, <<"leads_lookup", 0>>,
          <<"lead_write", 0>>}

\* the keywords the location loop of a shortlisting of applicant id can stop at
MatchChoices(id) ==
    IF id \in DOMAIN applicants /\ applicants[id].json.kind = "doc"
       /\ LocationMatches(applicants[id].json.doc.personal) # {}
    THEN LocationMatches(applicants[id].json.doc.personal)
    ELSE {"None"}

\* main.py lines 67-72 and 84-88: the shortlist command
Shortlist(id, F, matched) ==
    /\ nops < MaxOps
    /\ \E R \in {shortlist_applicant(id, F, matched, Today)} :
          Finish("shortlist", id, F, R)

Next ==
    \/ \E id \in CallIds :
          \E F \in FaultSets(CompressSites(id)) : \E returned \in Returned(id, F) :
                Compress(id, F, returned)
    \/ \E id \in CallIds :
          \E F \in FaultSets(ShortlistSites(id)), matched \in MatchChoices(id) :
                Shortlist(id, F, matched)
    \/ \E id \in CallIds :
          \E F \in FaultSets(DecompressSites(id)), order \in Orders(LinkedExisting(id)) :
                Decompress(id, F, order)

Spec == Init /\ [][Next]_vars

-----------------------------------------------------------------------------
(* Shortlisting alone, over the snapshots an applicant can carry *)

ShortlistLocations == {None, Some("Austin, US"), Some("Paris"),
                       Some("London, UK or Canada")}

ShortlistExperience ==
    {<<>>,
     \* 2000 days, no tier-1 company
     <<J_AcmeEngineerFull>>,
     \* 500 days at a tier-1 company, in another case
     <<[company |-> Some("GOOGLE"), title |-> Some("SRE"), start_date |-> Some(1000),
        end_date |-> Some(1500), technologies |-> None]>>,
     \* 400 days and an entry that is skipped: start after end
     <<J_InitechLead,
       [company |-> Some("Acme"), title |-> Some("Engineer"), start_date |-> Some(2500),
        end_date |-> Some(100), technologies |-> None]>>,
     \* 1000 + 461 days
     <<[company |-> Some("Acme"), title |-> Some("Engineer"), start_date |-> Some(0),
        end_date |-> Some(1000), technologies |-> None],
       [company |-> Some("Initech"), title |-> Some("Lead"), start_date |-> Some(1000),
        end_date |-> Some(1461), technologies |-> None]>>,
     \* 1 + 1454 + 6 days
     <<[company |-> Some("Acme"), title |-> Some("Intern"), start_date |-> Some(0),
        end_date |-> Some(1), technologies |-> None],
       [company |-> Some("Acme"), title |-> Some("Engineer"), start_date |-> Some(1),
        end_date |-> Some(1455), technologies |-> None],
       [company |-> Some("Initech"), title |-> Some("Lead"), start_date |-> Some(1455),
        end_date |-> Some(1461), technologies |-> None]>>,
     \* a date that does not parse, and an entry still running
     <<[company |-> Some("Globex"), title |-> Some("Dev"), start_date |-> Some(BadDate),
        end_date |-> Some(2000), technologies |-> None],
       [company |-> Some("Initech"), title |-> Some("Lead"), start_date |-> Some(1600),
        end_date |-> None, technologies |-> None]>>}

SalaryObj(rate, cur, avail) ==
    [preferred_rate |-> rate, minimum_rate |-> None, currency |-> cur,
     availability_hrs_wk |-> avail]

ShortlistSalary ==
    {EmptyObj,
     SalaryObj(Some(80), Some("USD"), Some(25)),
     SalaryObj(Some(100), Some("USD"), Some(20)),
     SalaryObj(Some(101), Some("USD"), Some(20)),
     SalaryObj(Some(150), Some("USD"), Some(25)),
     SalaryObj(Some(80), Some("EUR"), Some(25)),
     SalaryObj(None, Some("USD"), Some(25)),
     SalaryObj(Some(80), Some("USD"), Some(19)),
     SalaryObj(Some(80), Some("USD"), None)}

ShortlistJson ==
    {NoSnapshot, Malformed, NotObject}
    \cup {JsonDumps([personal |-> [name |-> Some("Ann"), email |-> None,
                                   location |-> loc, linkedin |-> None],
                     experience |-> e, salary |-> sal]) :
             loc \in ShortlistLocations, e \in ShortlistExperience,
             sal \in ShortlistSalary}

\* a snapshot that passes the three criteria
PassingJson ==
    JsonDumps([personal |-> [name |-> Some("Bob"), email |-> None,
                             location |-> Some("Austin, US"), linkedin |-> None],
               experience |-> <<J_AcmeEngineerFull>>,
               salary |-> SalaryObj(Some(80), Some("USD"), Some(25))])

BareApplicant(json) ==
    [personal |-> <<>>, work |-> <<>>, salary |-> <<>>, json |-> json, status |-> "",
     last_modified |-> IF json.kind = "none" THEN None ELSE Some(0),
     llm_evaluated |-> None, llm |-> <<>>]

\* the Lead an earlier shortlisting of PassingJson left
EarlierLead(id) ==
    [Applicant_ref |-> id, json |-> PassingJson,
     reason |-> ScoreReason(calculate_experience_years(PassingJson.doc.experience, Today),
                            PassingJson.doc.salary, PassingJson.doc.personal,
                            [experience |-> TRUE, compensation |-> TRUE,
                             location |-> TRUE], "us")]

\* two applicants; the first may already have a Lead
InitShortlist ==
    \E json \in ShortlistJson, hasLead \in BOOLEAN :
        /\ applicants = ("APP001" :> BareApplicant(json)
                          @@ "APP002" :> BareApplicant(PassingJson))
        /\ personal_details = <<>>
        /\ salary_preferences = <<>>
        /\ work_experience = <<>>
        /\ shortlisted_leads = IF hasLead THEN (1 :> EarlierLead("APP001")) ELSE <<>>
        /\ nextId = 2
        /\ last = NoInvocation
        /\ prev = NoSummary
        /\ nops = 0
        /\ nfaults = 0
        /\ clock = 1
        /\ utc_offset = 0
        /\ all_run = Idle
        /\ conc = NoRun

NextShortlist ==
    \E id \in CallIds \cup {"APP002"} :
        \E F \in FaultSets(ShortlistSites(id)), matched \in MatchChoices(id) :
            Shortlist(id, F, matched)

SpecShortlist == InitShortlist /\ [][NextShortlist]_vars

-----------------------------------------------------------------------------
(* The llm-evaluate and all commands *)

R_Good ==
    <<Line("summary:", "Strong engineer", "Summary: Strong engineer"),
      Line("score:", "8", "Score: 8"),
      Line("issues:", "None", "Issues: None"),
      Line("follow-ups:", "", "Follow-Ups:"),
      Line("bullet", "", "* Why Acme?"),
      Line("bullet", "", "* Which stack?")>>

\* a summary over two lines, a score that is no integer, dashes for bullets
R_Loose ==
    <<Line("summary:", "", "Summary:"),
      Line("text", "", "Strong engineer,"),
      Line("text", "", "short tenure"),
      Line("score:", "8/10", "Score: 8/10"),
      Line("issues:", "no end date", "Issues: no end date"),
      Line("follow-ups:", "", "Follow-Ups:"),
      Line("text", "", "- Why Acme?"),
      Line("bullet", "", "* Which stack?")>>

\* the ways a call of the LLM can end; <<>> is content that is blank
LlmOutcomes ==
    {Outcome("response", R_Good), Outcome("response", R_Loose),
     Outcome("response", <<>>), Outcome("no_content", <<>>),
     Outcome("status_error", <<>>), Outcome("connection_error", <<>>),
     Outcome("other_error", <<>>)}

\* a call that is not made
Unused == Outcome("unused", <<>>)

\* how the calls from the k-th on end: the calls after the first one that
\* does not end in an error with a status are not made
RECURSIVE ScriptsFrom(_)
ScriptsFrom(k) ==
    IF k > MAX_RETRIES THEN {<<>>}
    ELSE {<<o>> \o [j \in 1..(MAX_RETRIES - k) |-> Unused] :
             o \in LlmOutcomes \ {Outcome("status_error", <<>>)}}
         \cup {<<Outcome("status_error", <<>>)>> \o rest : rest \in ScriptsFrom(k + 1)}

LlmScripts == ScriptsFrom(1)

NoCalls == [k \in 1..MAX_RETRIES |-> Unused]
AllFail == [k \in 1..MAX_RETRIES |-> Outcome("status_error", <<>>)]

\* the scripts an evaluation of applicant id can meet: none when it returns
\* before the loop
LlmScriptsFor(id) ==
    IF evaluate_applicant_with_llm(id, {}, AllFail).calls = 0
    THEN {NoCalls} ELSE LlmScripts

\* the store calls an evaluation of applicant id makes
LlmSites(id) ==
    IF id \in DOMAIN applicants /\ applicants[id].json.kind # "none"
    THEN {<<"lookup", 0>>, <<"llm_write", 0>>}
    ELSE {<<"lookup", 0>>}

\* main.py lines 73-78 and 84-88: the llm-evaluate command
Evaluate(id, F, script) ==
    /\ all_run.done
    /\ nops < MaxOps
    /\ \E R \in {evaluate_applicant_with_llm(id, F, script)} :
          Record("llm-evaluate", "llm-evaluate", id, F, R, SubSeq(script, 1, R.calls))
    /\ nops' = nops + 1
    /\ UNCHANGED <<all_run, conc>>

KeepGoing(id, steps, step, ret) ==
    [id |-> id, steps |-> Append(steps, [step |-> step, ret |-> ret]),
     done |-> step = "llm-evaluate",
     exit |-> MainExit(ret)]

\* main.py lines 60-88: the `all` command after a step that returned ret:
\* sys.exit(-1) after a step that failed, the next step otherwise
AllAfter(id, steps, step, ret) ==
    [id |-> id, steps |-> Append(steps, [step |-> step, ret |-> ret]),
     done |-> ret # "True" \/ step = "llm-evaluate",
     exit |-> MainExit(ret)]

\* main.py lines 61-66: the first step of `all`
AllCompress(id, F, returned) ==
    /\ all_run.done
    /\ nops < MaxOps
    /\ \E R \in {compress_applicant_data(id, F, returned)} :
          /\ Record("compress", "all", id, F, R, <<>>)
          /\ all_run' = AllAfter(id, <<>>, "compress", R.ret)
    /\ nops' = nops + 1
    /\ UNCHANGED conc

\* main.py lines 67-72: the second step of `all`
AllShortlist(F, matched) ==
    /\ ~all_run.done
    /\ Len(all_run.steps) = 1
    /\ \E R \in {shortlist_applicant(all_run.id, F, matched, Today)} :
          /\ Record("shortlist", "all", all_run.id, F, R, <<>>)
          /\ all_run' = AllAfter(all_run.id, all_run.steps, "shortlist", R.ret)
    /\ UNCHANGED <<nops, conc>>

\* main.py lines 73-78 and 84-88: the third step of `all`
AllEvaluate(F, script) ==
    /\ ~all_run.done
    /\ Len(all_run.steps) = 2
    /\ \E R \in {evaluate_applicant_with_llm(all_run.id, F, script)} :
          /\ Record("llm-evaluate", "all", all_run.id, F, R, SubSeq(script, 1, R.calls))
          /\ all_run' = AllAfter(all_run.id, all_run.steps, "llm-evaluate", R.ret)
    /\ UNCHANGED <<nops, conc>>

\* an applicant whose records make a snapshot that passes the three criteria
\* (work, side), or one without records; a snapshot written at tick 4, or
\* none; an evaluation before, at or after that tick, or none
InitPipeline ==
    \E work \in {<<>>, <<W_GoogleSRE>>}, side \in {<<>>, <<P_Full, S_Full>>},
       json \in {NoSnapshot, Malformed, PassingJson},
       evaluated \in {None, Some(3), Some(4), Some(BadTimestamp)},
       offset \in {-2, 0, 2} :
        /\ json.kind = "none" => evaluated = None
        /\ applicants = (AppId :>
                [personal |-> IF side = <<>> THEN <<>> ELSE <<1>>,
                 work |-> [n \in 1..Len(work) |-> n + 2],
                 salary |-> IF side = <<>> THEN <<>> ELSE <<2>>,
                 json |-> json,
                 status |-> "",
                 last_modified |-> IF json.kind = "none" THEN None ELSE Some(4),
                 llm_evaluated |-> evaluated,
                 llm |-> IF evaluated = None THEN <<>>
                         ELSE [summary |-> <<"Earlier summary">>, score |-> Some(10),
                               follow_ups |-> <<>>]])
        /\ personal_details = IF side = <<>> THEN <<>> ELSE (1 :> side[1])
        /\ salary_preferences = IF side = <<>> THEN <<>> ELSE (2 :> side[2])
        /\ work_experience = [i \in 3..(Len(work) + 2) |-> work[i - 2]]
        /\ shortlisted_leads = <<>>
        /\ nextId = Len(work) + 3
        /\ last = NoInvocation
        /\ prev = NoSummary
        /\ nops = 0
        /\ nfaults = 0
        /\ clock = 5
        /\ utc_offset = offset
        /\ all_run = Idle
        /\ conc = NoRun

NextPipeline ==
    \/ \E id \in CallIds :
          \E F \in FaultSets(CompressSites(id)) : \E returned \in Returned(id, F) :
                Compress(id, F, returned)
    \/ \E id \in CallIds :
          \E F \in FaultSets(LlmSites(id)), script \in LlmScriptsFor(id) :
                Evaluate(id, F, script)
    \/ \E id \in CallIds :
          \E F \in FaultSets(CompressSites(id)) : \E returned \in Returned(id, F) :
                AllCompress(id, F, returned)
    \/ \E F \in FaultSets(ShortlistSites(all_run.id)),
          matched \in MatchChoices(all_run.id) : AllShortlist(F, matched)
    \/ \E F \in FaultSets(LlmSites(all_run.id)), script \in LlmScriptsFor(all_run.id) :
          AllEvaluate(F, script)

SpecPipeline == InitPipeline /\ [][NextPipeline]_vars

-----------------------------------------------------------------------------
(* The four commands on one base that no one else changes *)

\* an applicant with two Work Experience records and the other two records,
\* or with none; no snapshot, one that passes the criteria, or one that
\* differs from the records
InitLifecycle ==
    \E work \in {<<>>, <<W_AcmeEngineer, W_GoogleSRE>>},
       side \in {<<>>, <<P_Full, S_Full>>},
       json \in {NoSnapshot, PassingJson,
                 JsonDumps([personal |-> J_PersonalEdit,
                            experience |-> <<J_InitechLead>>,
                            salary |-> J_SalaryEdit])} :
        InitStore(work, side, json)

\* the store's answer to a lookup of linked records holds all of them, in
\* any order: no one deletes a record while a command runs
NextLifecycle ==
    \/ \E id \in CallIds :
          \E F \in FaultSets(CompressSites(id)) :
             \E returned \in Orders(LinkedExisting(id)) :
                Compress(id, F, returned)
    \/ \E id \in CallIds :
          \E F \in FaultSets(DecompressSites(id)), order \in Orders(LinkedExisting(id)) :
                Decompress(id, F, order)
    \/ \E id \in CallIds :
          \E F \in FaultSets(ShortlistSites(id)), matched \in MatchChoices(id) :
                Shortlist(id, F, matched)
    \/ \E id \in CallIds :
          \E F \in FaultSets(LlmSites(id)), script \in LlmScriptsFor(id) :
                Evaluate(id, F, script)

SpecLifecycle == InitLifecycle /\ [][NextLifecycle]_vars

-----------------------------------------------------------------------------
(* The llm-evaluate command over the responses of the LLM *)

\* the non-empty lines a response is made of
ResponseLines ==
    {Line("summary:", "Strong engineer", "Summary: Strong engineer"),
     Line("score:", "8", "Score: 8"),
     Line("score:", "8/10", "Score: 8/10"),
     Line("issues:", "no end date", "Issues: no end date"),
     Line("follow-ups:", "", "Follow-Ups:"),
     Line("bullet", "", "* Why Acme?"),
     Line("text", "", "short tenure")}

Responses == UNION {[1..n -> ResponseLines] : n \in 1..MaxLines}

\* the first call of the LLM answers with one of the responses; no call
\* when the evaluation returns before the loop
ResponseScriptsFor(id) ==
    IF evaluate_applicant_with_llm(id, {}, AllFail).calls = 0
    THEN {NoCalls}
    ELSE {<<Outcome("response", r)>> \o [j \in 1..(MAX_RETRIES - 1) |-> Unused] :
             r \in Responses}

\* an applicant whose snapshot was written at tick 4 and not evaluated yet
InitParse ==
    /\ applicants = (AppId :> [BareApplicant(PassingJson) EXCEPT
                                 !.last_modified = Some(4)])
    /\ personal_details = <<>>
    /\ salary_preferences = <<>>
    /\ work_experience = <<>>
    /\ shortlisted_leads = <<>>
    /\ nextId = 1
    /\ last = NoInvocation
    /\ prev = NoSummary
    /\ nops = 0
    /\ nfaults = 0
    /\ clock = 5
    /\ utc_offset = 0
    /\ all_run = Idle
    /\ conc = NoRun

NextParse ==
    \E script \in ResponseScriptsFor(AppId) : Evaluate(AppId, {}, script)

SpecParse == InitParse /\ [][NextParse]_vars

-----------------------------------------------------------------------------
(* Two invocations at once, store call by store call *)

\* An invocation under way: pc names the store call it makes next, rec is
\* the applicant record it read, ret its result once pc is "done"; order,
\* matched and script are its inputs (the order of the store's answers, the
\* keyword the location loop stops at, the way the LLM calls end); the other
\* fields are the local variables of the handlers.
Proc(op, id, order, matched, script) ==
    [op |-> op, id |-> id, pc |-> "lookup", ret |-> "", rec |-> <<>>,
     order |-> order, matched |-> matched, script |-> script,
     compressed_data |-> EmptyDoc,
     current_experience_map |-> <<>>, processed_experience_ids |-> {},
     item |-> 1, new_record |-> None,
     existing_shortlist |-> {}, llm_response_content |-> <<>>]

\* the invocation goes on to the store call pc, or returns
Goes(p, pc, store) == [p |-> [p EXCEPT !.pc = pc], store |-> store]
Ends(p, ret, store) == [p |-> [p EXCEPT !.pc = "done", !.ret = ret], store |-> store]

\* json_automation.py lines 62-150, one store call at a time
CompressCall(p) ==
    CASE p.pc = "lookup" ->
            IF p.id \notin DOMAIN applicants THEN Ends(p, "False", Store)
            ELSE Goes([p EXCEPT !.rec = applicants[p.id]], "personal_get", Store)
      [] p.pc = "personal_get" ->
            Goes([p EXCEPT !.compressed_data.personal = CompressPersonal(p.rec, {})],
                 "we_fetch", Store)
      [] p.pc = "we_fetch" ->
            Goes([p EXCEPT !.compressed_data.experience =
                               CompressExperience(p.rec, {}, p.order)],
                 "salary_get", Store)
      [] p.pc = "salary_get" ->
            Goes([p EXCEPT !.compressed_data.salary = CompressSalary(p.rec, {})],
                 "write", Store)
      [] p.pc = "write" ->
            Ends(p, "True",
                 [Store EXCEPT !.applicants[p.id] =
                     StoreWriteSnapshot(@, JsonDumps(p.compressed_data))])

\* the id of the record a call created, if it created one
Created(ids) == IF ids = {} THEN None ELSE Some(CHOOSE i \in ids : TRUE)

\* json_automation.py lines 152-297, one store call at a time: the creation
\* of a record and the call that links it are two calls
DecompressCall(p) ==
    LET data == JsonLoads(p.rec.json).data
    IN
    CASE p.pc = "lookup" ->
            IF p.id \notin DOMAIN applicants THEN Ends(p, "False", Store)
            ELSE IF applicants[p.id].json.kind = "none" THEN Ends(p, "False", Store)
            ELSE IF JsonLoads(applicants[p.id].json).res = "error"
            THEN Ends(p, "False", Store)
            ELSE IF JsonLoads(applicants[p.id].json).res = "other"
            THEN Ends(p, "raise", Store)
            ELSE Goes([p EXCEPT !.rec = applicants[p.id]], "personal_upsert", Store)
      [] p.pc = "personal_upsert" ->
            LET P == UpsertSection(personal_details, p.rec.personal, data.personal,
                                   PersonalCol, nextId, FALSE, TRUE)
            IN  Goes([p EXCEPT !.new_record = Created(P.created)], "personal_link",
                     [Store EXCEPT !.personal_details = P.tbl, !.nextId = P.next])
      [] p.pc = "personal_link" ->
            Goes([p EXCEPT !.new_record = None], "we_fetch",
                 IF p.new_record = None THEN Store
                 ELSE [Store EXCEPT !.applicants[p.id].personal =
                                        Append(@, p.new_record[1])])
      [] p.pc = "we_fetch" ->
            Goes([p EXCEPT !.current_experience_map =
                     current_experience_map(
                         IF p.rec.work = <<>> THEN <<>> ELSE p.order,
                         work_experience)],
                 "we_upsert", Store)
      [] p.pc = "we_upsert" ->
            IF p.item > Len(data.experience) THEN Goes(p, "we_delete", Store)
            ELSE LET after == ReconcileFrom(p.item, SubSeq(data.experience, 1, p.item),
                                  p.current_experience_map, {<<"we_link", p.item>>},
                                  [tbl |-> work_experience, links |-> <<>>,
                                   next |-> nextId,
                                   processed |-> p.processed_experience_ids,
                                   created |-> {}])
                 IN  Goes([p EXCEPT !.processed_experience_ids = after.processed,
                                    !.new_record = Created(after.created)],
                          "we_link",
                          [Store EXCEPT !.work_experience = after.tbl,
                                        !.nextId = after.next])
      [] p.pc = "we_link" ->
            Goes([p EXCEPT !.new_record = None, !.item = @ + 1], "we_upsert",
                 IF p.new_record = None THEN Store
                 ELSE [Store EXCEPT !.applicants[p.id].work =
                                        Append(@, p.new_record[1])])
      [] p.pc = "we_delete" ->
            LET stale == to_delete_ids(get_all_linked_record_ids(p.rec.work),
                                       p.processed_experience_ids)
            IN  Goes(p, "salary_upsert",
                     [Store EXCEPT !.work_experience = StoreDelete(@, stale),
                                   !.applicants[p.id].work = Unlink(@, stale)])
      [] p.pc = "salary_upsert" ->
            LET S == UpsertSection(salary_preferences, p.rec.salary, data.salary,
                                   SalaryCol, nextId, FALSE, TRUE)
            IN  Goes([p EXCEPT !.new_record = Created(S.created)], "salary_link",
                     [Store EXCEPT !.salary_preferences = S.tbl, !.nextId = S.next])
      [] p.pc = "salary_link" ->
            Ends(p, "True",
                 IF p.new_record = None THEN Store
                 ELSE [Store EXCEPT !.applicants[p.id].salary =
                                        Append(@, p.new_record[1])])

\* shortlist_automation.py lines 92-159: the criteria of a snapshot
ShortlistDecision(data, matched, now) ==
    LET years == calculate_experience_years(data.experience, now)
        crit == [experience |-> experience_criteria_met(years),
                 compensation |-> compensation_criteria_met(data.salary),
                 location |-> matched # "None"]
        shortlisted == is_shortlisted(crit.experience, crit.compensation,
                                      crit.location)
    IN  [is_shortlisted |-> shortlisted,
         new_status |-> IF shortlisted THEN "Shortlisted" ELSE "Not Shortlisted",
         score_reasons |-> ScoreReason(years, data.salary, data.personal, crit,
                                       matched)]

\* shortlist_automation.py lines 69-186, one store call at a time
ShortlistCall(p) ==
    CASE p.pc = "lookup" ->
            IF p.id \notin DOMAIN applicants THEN Ends(p, "False", Store)
            ELSE Goes([p EXCEPT !.rec = applicants[p.id]], "status_write", Store)
      [] p.pc = "status_write" ->
            IF p.rec.json.kind = "none"
            THEN Ends(p, "False",
                      [Store EXCEPT !.applicants[p.id].status = "Incomplete Data"])
            ELSE IF JsonLoads(p.rec.json).res = "error"
            THEN Ends(p, "False",
                      [Store EXCEPT !.applicants[p.id].status = "JSON Error"])
            ELSE IF JsonLoads(p.rec.json).res = "other" THEN Ends(p, "raise", Store)
            ELSE LET D == ShortlistDecision(JsonLoads(p.rec.json).data, p.matched,
                                            Today)
                     written == [Store EXCEPT
                                   !.applicants[p.id].status = D.new_status]
                 IN  IF D.is_shortlisted THEN Goes(p, "leads_lookup", written)
                     ELSE Ends(p, "None", written)
      [] p.pc = "leads_lookup" ->
            Goes([p EXCEPT !.existing_shortlist = LeadsOf(p.id)], "lead_write", Store)
      [] p.pc = "lead_write" ->
            LET D == ShortlistDecision(JsonLoads(p.rec.json).data, p.matched, Today)
                fields_to_upsert == [Applicant_ref |-> p.id, json |-> p.rec.json,
                                     reason |-> D.score_reasons]
                first == CHOOSE l \in p.existing_shortlist :
                            \A m \in p.existing_shortlist : l <= m
            IN  Ends(p, "True",
                     IF p.existing_shortlist # {}
                     THEN [Store EXCEPT !.shortlisted_leads[first] = fields_to_upsert]
                     ELSE [Store EXCEPT
                             !.shortlisted_leads = @ @@ (nextId :> fields_to_upsert),
                             !.nextId = @ + 1])

\* llm_automation.py lines 98-203, one store call at a time; the calls of
\* the LLM are one step between the two store calls
EvaluateCall(p) ==
    CASE p.pc = "lookup" ->
            LET R == evaluate_applicant_with_llm(p.id, {}, AllFail)
            IN  IF R.calls = 0 THEN Ends(p, R.ret, Store)
                ELSE Goes([p EXCEPT !.rec = applicants[p.id]], "llm", Store)
      [] p.pc = "llm" ->
            LET L == LlmLoop(p.script, 0, INITIAL_BACKOFF_DELAY)
            IN  IF L.end = "raise" THEN Ends(p, "raise", Store)
                ELSE IF L.end = "False" \/ L.content = <<>> THEN Ends(p, "False", Store)
                ELSE Goes([p EXCEPT !.llm_response_content = L.content],
                          "llm_write", Store)
      [] p.pc = "llm_write" ->
            LET parsed_outputs == parse_llm_response(p.llm_response_content)
            IN  Ends(p, "True",
                     [Store EXCEPT
                        !.applicants[p.id].llm =
                            [summary |-> parsed_outputs.summary,
                             score |-> parsed_outputs.score,
                             follow_ups |-> parsed_outputs.follow_ups],
                        !.applicants[p.id].llm_evaluated = Some(clock + utc_offset)])

\* the next store call of the invocation p
Call(p) ==
    CASE p.op = "compress" -> CompressCall(p)
      [] p.op = "decompress" -> DecompressCall(p)
      [] p.op = "shortlist" -> ShortlistCall(p)
      [] p.op = "llm-evaluate" -> EvaluateCall(p)

\* the whole invocation p, alone
Alone(p) ==
    CASE p.op = "compress" -> compress_applicant_data(p.id, {}, p.order)
      [] p.op = "decompress" -> decompress_applicant_data(p.id, {}, p.order)
      [] p.op = "shortlist" -> shortlist_applicant(p.id, {}, p.matched, Today)
      [] p.op = "llm-evaluate" -> evaluate_applicant_with_llm(p.id, {}, p.script)

\* What a store holds, whatever the ids of its records and the times of its
\* writes: for each applicant the fields the commands write and the linked
\* records in the order of the link fields, and for each table how many
\* records it has with the same fields.
Resolve(links, tbl) ==
    [n \in 1..Len(links) |->
        IF links[n] \in DOMAIN tbl THEN Some(tbl[links[n]]) ELSE None]

Contents(tbl) ==
    [c \in {tbl[i] : i \in DOMAIN tbl} |-> Cardinality({i \in DOMAIN tbl : tbl[i] = c})]

View(st) ==
    [applicants |->
        [a \in DOMAIN st.applicants |->
            [json |-> st.applicants[a].json,
             status |-> st.applicants[a].status,
             llm |-> st.applicants[a].llm,
             personal |-> Resolve(st.applicants[a].personal, st.personal_details),
             work |-> Resolve(st.applicants[a].work, st.work_experience),
             salary |-> Resolve(st.applicants[a].salary, st.salary_preferences)]],
     personal_details |-> Contents(st.personal_details),
     work_experience |-> Contents(st.work_experience),
     salary_preferences |-> Contents(st.salary_preferences),
     shortlisted_leads |-> Contents(st.shortlisted_leads)]

ConcOps == {"compress", "decompress", "shortlist", "llm-evaluate"}

\* a snapshot that differs from the records of both applicants
EditedJson ==
    JsonDumps([personal |-> J_PersonalEdit,
               experience |-> <<J_InitechLead, J_AcmeEngineer>>,
               salary |-> J_SalaryEdit])

\* an answer at the first call, or at the second after an error
ConcScripts ==
    {<<Outcome("response", R_Good), Unused, Unused>>,
     <<Outcome("status_error", <<>>), Outcome("response", R_Loose), Unused>>}

\* the inputs an invocation of op for applicant id can meet
ProcsFor(op, id) ==
    {Proc(op, id, order, matched, script) :
        order \in IF op \in {"compress", "decompress"}
                  THEN Orders(LinkedExisting(id)) ELSE {<<>>},
        matched \in IF op = "shortlist" THEN MatchChoices(id) ELSE {"None"},
        script \in IF op = "llm-evaluate" THEN ConcScripts ELSE {NoCalls}}

\* Two applicants that share no child record, the first with a record of
\* every kind and maybe a Lead, the second with one Work Experience record;
\* one invocation for each.  The two invocations first run one after the
\* other, in either order; then the store is put back and they run again,
\* their store calls interleaved.
InitConcurrent ==
    \E json1 \in {NoSnapshot, PassingJson, EditedJson},
       json2 \in {PassingJson, EditedJson}, hasLead \in BOOLEAN :
        /\ applicants =
              ("APP001" :> [BareApplicant(json1) EXCEPT
                              !.personal = <<1>>, !.work = <<3, 4>>, !.salary = <<2>>]
               @@ "APP002" :> [BareApplicant(json2) EXCEPT !.work = <<5>>])
        /\ personal_details = (1 :> P_Full)
        /\ salary_preferences = (2 :> S_Full)
        /\ work_experience =
              (3 :> W_AcmeEngineer @@ 4 :> W_GoogleSRE @@ 5 :> W_NoTitle)
        /\ shortlisted_leads = IF hasLead THEN (6 :> EarlierLead("APP001")) ELSE <<>>
        /\ nextId = 7
        /\ last = NoInvocation
        /\ prev = NoSummary
        /\ nops = 0
        /\ nfaults = 0
        /\ clock = 1
        /\ utc_offset = 0
        /\ all_run = Idle
        /\ \E op1 \in ConcOps, op2 \in ConcOps :
              \E p1 \in ProcsFor(op1, "APP001"), p2 \in ProcsFor(op2, "APP002") :
                 conc = [phase |-> "sequential", start |-> Store,
                         procs |-> <<p1, p2>>, ran |-> {},
                         alone |-> <<"", "">>, expected |-> <<>>,
                         mixed |-> FALSE]

\* invocation i runs alone, from its first store call to its return
RunAlone(i) ==
    /\ conc.phase = "sequential"
    /\ i \notin conc.ran
    /\ \E R \in {Alone(conc.procs[i])} :
          /\ Record(conc.procs[i].op, conc.procs[i].op, conc.procs[i].id, {}, R, <<>>)
          /\ conc' = [conc EXCEPT !.ran = @ \cup {i}, !.alone[i] = R.ret]
    /\ nops' = nops + 1
    /\ UNCHANGED all_run

\* both have run alone: what the store holds is kept, and the store is put
\* back as it was
PutBack ==
    /\ conc.phase = "sequential"
    /\ conc.ran = {1, 2}
    /\ applicants' = conc.start.applicants
    /\ personal_details' = conc.start.personal_details
    /\ work_experience' = conc.start.work_experience
    /\ salary_preferences' = conc.start.salary_preferences
    /\ shortlisted_leads' = conc.start.shortlisted_leads
    /\ nextId' = conc.start.nextId
    /\ conc' = [conc EXCEPT !.phase = "interleaved", !.expected = View(Store)]
    /\ UNCHANGED <<last, prev, nops, nfaults, clock, utc_offset, all_run>>

\* invocation i makes its next store call
StoreCall(i) ==
    /\ conc.phase = "interleaved"
    /\ conc.procs[i].pc # "done"
    /\ \E R \in {Call(conc.procs[i])} :
          /\ applicants' = R.store.applicants
          /\ personal_details' = R.store.personal_details
          /\ work_experience' = R.store.work_experience
          /\ salary_preferences' = R.store.salary_preferences
          /\ shortlisted_leads' = R.store.shortlisted_leads
          /\ nextId' = R.store.nextId
          /\ conc' = [conc EXCEPT
                        !.procs[i] = R.p,
                        !.mixed = @ \/ conc.procs[3 - i].pc \notin {"lookup", "done"}]
    /\ UNCHANGED <<last, prev, nops, nfaults, clock, utc_offset, all_run>>

NextConcurrent ==
    \/ \E i \in {1, 2} : RunAlone(i)
    \/ PutBack
    \/ \E i \in {1, 2} : StoreCall(i)

SpecConcurrent == InitConcurrent /\ [][NextConcurrent]_vars

-----------------------------------------------------------------------------
(* Properties *)

\* the invocation `r` ran against an applicant the lookup found
Found(r) == r.id \in DOMAIN applicants

\* the snapshot the last invocation read, and its experience array
LastSnapshot == last.pre.applicants[last.id].json
LastEntries == LastSnapshot.doc.experience

\* the (company, title) pair of a snapshot entry
EntryKey(exp_item) == <<Get(exp_item, "company"), Get(exp_item, "title")>>

\* the Work Experience records linked to the applicant before / after the
\* last invocation
LinkedBefore == Range(last.pre.applicants[last.id].work)
LinkedAfter == Range(applicants[last.id].work)

\* a compression and then a decompression of the same applicant, both
\* without a store error
RoundTripDone ==
    /\ prev.op = "compress" /\ prev.ret = "True" /\ prev.faults = {}
    /\ last.op = "decompress" /\ last.ret = "True" /\ last.faults = {}
    /\ last.id = prev.id

\* C1: a compression followed at once by a decompression, both without store
\* errors, leaves the fields of every linked Personal Details, Work
\* Experience and Salary Preferences record unchanged, creates no Work
\* Experience record and deletes none.
C1_RoundTripKeepsChildren ==
    RoundTripDone =>
        /\ last.weCreated = {}
        /\ last.weDeleted = {}
        /\ \A i \in LinkedBefore :
              /\ i \in DOMAIN work_experience
              /\ work_experience[i] = last.pre.work_experience[i]
        /\ \A i \in Range(last.pre.applicants[last.id].personal) :
              personal_details[i] = last.pre.personal_details[i]
        /\ \A i \in Range(last.pre.applicants[last.id].salary) :
              salary_preferences[i] = last.pre.salary_preferences[i]

\* two decompressions in a row of the same applicant, both without a store
\* error (no invocation in between, so the snapshot is the same)
DecompressedTwice ==
    /\ prev.op = "decompress" /\ prev.ret = "True" /\ prev.faults = {}
    /\ last.op = "decompress" /\ last.ret = "True" /\ last.faults = {}
    /\ last.id = prev.id

\* C2: the second of two decompressions of an unchanged snapshot creates no
\* Personal Details, Salary Preferences or Work Experience record, and every
\* Work Experience record linked after the first run is still linked, under
\* the same identifier, after the second.
C2_SecondDecompressionChangesNoIdentity ==
    DecompressedTwice =>
        /\ last.pdCreated = {} /\ last.spCreated = {} /\ last.weCreated = {}
        /\ \A i \in LinkedBefore : i \in LinkedAfter

\* a decompression that went through the snapshot without a store error
DecompressedCleanly ==
    /\ last.op = "decompress" /\ last.ret = "True" /\ last.faults = {}

\* C3: after a decompression the linked Work Experience records are exactly
\* the snapshot's entries: as many linked records as entries, every entry
\* has a linked record with its (company, title), every linked record has an
\* entry, and an entry that matches a record linked before is represented by
\* a record that was linked before.  Stated for runs without store errors on
\* snapshots whose entries all carry a company and a title.
C3_LinkedRecordsAreTheSnapshot ==
    (/\ DecompressedCleanly
     /\ \A n \in 1..Len(LastEntries) :
           Get(LastEntries[n], "company") # None /\ Get(LastEntries[n], "title") # None)
    =>  /\ Len(applicants[last.id].work) = Len(LastEntries)
        /\ Cardinality(LinkedAfter) = Len(LastEntries)
        /\ \A n \in 1..Len(LastEntries) : \E i \in LinkedAfter :
              /\ i \in DOMAIN work_experience
              /\ ExperienceKey(work_experience[i]) = EntryKey(LastEntries[n])
        /\ \A i \in LinkedAfter : \E n \in 1..Len(LastEntries) :
              /\ i \in DOMAIN work_experience
              /\ ExperienceKey(work_experience[i]) = EntryKey(LastEntries[n])
        /\ \A n \in 1..Len(LastEntries) :
              (\E i \in LinkedBefore :
                  ExperienceKey(last.pre.work_experience[i]) = EntryKey(LastEntries[n]))
              => (\E i \in LinkedBefore \cap LinkedAfter :
                  ExperienceKey(last.pre.work_experience[i]) = EntryKey(LastEntries[n]))

\* the only store calls that raised in the last invocation are updates or
\* creations of single Work Experience records
OnlyUpsertsFailed ==
    \A f \in last.faults : f[1] = "we_upsert"

\* the records linked before the last invocation have pairwise distinct
\* (company, title) pairs
DistinctKeysBefore ==
    \A i, j \in LinkedBefore :
        i # j => ExperienceKey(last.pre.work_experience[i])
                   # ExperienceKey(last.pre.work_experience[j])

\* C4: a decompression deletes a Work Experience record only if the record
\* was linked to the applicant at the start of the run and no snapshot entry
\* has its (company, title); a linked record whose pair is in the snapshot is
\* not deleted, also when the update of that record fails.  Stated for
\* applicants whose linked records have distinct pairs.
C4_DeletesOnlyStaleRecords ==
    (/\ last.op = "decompress" /\ last.ret = "True"
     /\ OnlyUpsertsFailed /\ DistinctKeysBefore)
    =>  \A i \in last.weDeleted :
            /\ i \in LinkedBefore
            /\ ~ \E n \in 1..Len(LastEntries) :
                    EntryKey(LastEntries[n]) = ExperienceKey(last.pre.work_experience[i])

\* a column of a record that existed before and after differs
Changed(old, new, column) == FieldGet(old, column) # FieldGet(new, column)

\* C5: a decompression changes a field of an existing Personal Details or
\* Salary Preferences record only if the snapshot gives a value for it, and a
\* field of an existing Work Experience record only if a snapshot entry with
\* the record's (company, title) gives a value for it; every field the
\* snapshot leaves out or null keeps its value.
C5_AbsentFieldsKeepTheirValue ==
    (last.op = "decompress" /\ last.ret = "True") =>
        /\ \A i \in DOMAIN last.pre.personal_details \cap DOMAIN personal_details :
              \A k \in DOMAIN PersonalCol :
                Changed(last.pre.personal_details[i], personal_details[i], PersonalCol[k])
                => Get(LastSnapshot.doc.personal, k) # None
        /\ \A i \in DOMAIN last.pre.salary_preferences \cap DOMAIN salary_preferences :
              \A k \in DOMAIN SalaryCol :
                Changed(last.pre.salary_preferences[i], salary_preferences[i], SalaryCol[k])
                => Get(LastSnapshot.doc.salary, k) # None
        /\ \A i \in DOMAIN last.pre.work_experience \cap DOMAIN work_experience :
              \A k \in DOMAIN ExperienceCol :
                Changed(last.pre.work_experience[i], work_experience[i], ExperienceCol[k])
                => \E n \in 1..Len(LastEntries) :
                      /\ EntryKey(LastEntries[n])
                            = ExperienceKey(last.pre.work_experience[i])
                      /\ Get(LastEntries[n], k) # None

\* C5 witness: a linked Personal Details record was updated: the snapshot
\* gave a new name and no email, and the record still has its email
C5_Witness ==
    /\ last.op = "decompress" /\ last.ret = "True"
    /\ \E i \in Range(last.pre.applicants[last.id].personal) :
          /\ Get(LastSnapshot.doc.personal, "email") = None
          /\ "Email" \in DOMAIN last.pre.personal_details[i]
          /\ FieldGet(personal_details[i], "Email")
                = FieldGet(last.pre.personal_details[i], "Email")
          /\ Changed(last.pre.personal_details[i], personal_details[i], "Full Name")

\* C6: a decompression of an existing applicant that has no snapshot leaves
\* the store as it was, returns no failure result, and the decompress
\* command exits with code 0.
C6_NoSnapshotIsNoFailure ==
    (/\ last.op = "decompress" /\ last.faults = {}
     /\ last.id \in DOMAIN last.pre.applicants
     /\ LastSnapshot.kind = "none")
    =>  /\ Store = last.pre
        /\ last.ret # "False"
        /\ last.exit = 0

\* C7: a decompression that returns goes through the three sections whatever
\* store call raised, and returns success unless the lookup found no
\* applicant or the snapshot failed to parse as JSON.
C7_DecompressionSucceedsPastLookupAndParse ==
    (last.op = "decompress" /\ last.ret # "raise") =>
        \/ last.ret = "True" /\ last.sections = {"personal", "experience", "salary"}
        \/ last.id \notin DOMAIN last.pre.applicants
        \/ LastSnapshot.kind = "malformed"

\* C8: no invocation of compress_applicant_data, decompress_applicant_data or
\* shortlist_applicant ends with an exception: every failure is a returned
\* failure result.
C8_NoExceptionLeavesTheComponent ==
    last.op \in {"compress", "decompress", "shortlist"} => last.ret \in {"True", "False"}

\* the Leads that referenced the applicant before the last invocation
LeadsBefore ==
    {l \in DOMAIN last.pre.shortlisted_leads :
        last.pre.shortlisted_leads[l].Applicant_ref = last.id}

\* C9: at most one Shortlisted Lead references an applicant, and a
\* shortlisting of an applicant that already has a Lead creates no Lead: when
\* it returns success it has written the snapshot and the reasons of this run
\* to that Lead.
C9_OneLeadPerApplicant ==
    /\ \A id \in DOMAIN applicants : Cardinality(LeadsOf(id)) <= 1
    /\ (last.op = "shortlist" /\ LeadsBefore # {}) =>
          /\ last.leadCreated = {}
          /\ LeadsOf(last.id) = LeadsBefore
          /\ last.ret = "True" =>
                /\ last.leadUpdated = LeadsBefore
                /\ \A l \in LeadsBefore :
                      /\ shortlisted_leads[l].json = LastSnapshot
                      /\ shortlisted_leads[l].reason.compensation.preferred_rate
                            = Get(LastSnapshot.doc.salary, "preferred_rate")
                      /\ shortlisted_leads[l].reason.location.location
                            = Get(LastSnapshot.doc.personal, "location")

\* C9 witness: a shortlisting updated the Lead the applicant already had, and
\* the Lead now holds another snapshot than before
C9_Witness ==
    /\ last.op = "shortlist" /\ last.ret = "True"
    /\ LeadsBefore # {}
    /\ \E l \in LeadsBefore :
          /\ l \in last.leadUpdated
          /\ shortlisted_leads[l].json # last.pre.shortlisted_leads[l].json

\* a shortlisting of an applicant whose snapshot parses to a snapshot
\* document, in which the store accepted the lookup and the status write
ShortlistEvaluated ==
    /\ last.op = "shortlist"
    /\ last.id \in DOMAIN last.pre.applicants
    /\ LastSnapshot.kind = "doc"
    /\ <<"lookup", 0>> \notin last.faults
    /\ <<"status_write", 0>> \notin last.faults

\* C10: a shortlisting of an applicant with a parseable snapshot writes a
\* Shortlist Status, "Shortlisted" exactly when the experience, compensation
\* and location criteria all pass and "Not Shortlisted" otherwise.
C10_StatusFollowsCriteria ==
    ShortlistEvaluated =>
        /\ applicants[last.id].status = last.status
        /\ last.status \in {"Shortlisted", "Not Shortlisted"}
        /\ last.status = "Shortlisted" <=>
              (/\ last.criteria.experience
               /\ last.criteria.compensation
               /\ last.criteria.location)

\* C10 witness: the experience and compensation criteria pass, the location
\* criterion fails, and the status written is "Not Shortlisted"
C10_Witness ==
    /\ ShortlistEvaluated
    /\ last.criteria.experience /\ last.criteria.compensation
    /\ ~last.criteria.location
    /\ applicants[last.id].status = "Not Shortlisted"

\* the salary object the last shortlisting read
LastSalary == LastSnapshot.doc.salary

\* C11: the compensation criterion passes exactly when preferred_rate is
\* present, currency is "USD", preferred_rate <= 100, availability_hrs_wk is
\* present and availability_hrs_wk >= 20; when it fails, the logged rationale
\* holds "FAILED: Compensation".
C11_CompensationCriterion ==
    ShortlistEvaluated =>
        /\ last.criteria.compensation <=>
              (/\ Get(LastSalary, "preferred_rate") # None
               /\ Get(LastSalary, "currency") = Some("USD")
               /\ Get(LastSalary, "preferred_rate")[1] <= 100
               /\ Get(LastSalary, "availability_hrs_wk") # None
               /\ Get(LastSalary, "availability_hrs_wk")[1] >= 20)
        /\ ~last.criteria.compensation =>
              last.reason.compensation.prefix = "FAILED: Compensation - "
        /\ last.criteria.compensation =>
              last.reason.compensation.prefix = "Compensation: "

\* C11 witness: rate and currency pass, the availability is below 20, and
\* the criterion failed with its rationale
C11_Witness ==
    /\ ShortlistEvaluated
    /\ Get(LastSalary, "preferred_rate") = Some(80)
    /\ Get(LastSalary, "currency") = Some("USD")
    /\ Get(LastSalary, "availability_hrs_wk") = Some(19)
    /\ ~last.criteria.compensation
    /\ last.reason.compensation.prefix = "FAILED: Compensation - "

\* the days a snapshot entry counts for: the days from start to end (to the
\* day of the run when the entry has no end) when the dates parse and the
\* start is not after the end, and nothing otherwise
ValidDays(exp_item) ==
    LET start == Get(exp_item, "start_date")
        end == Get(exp_item, "end_date")
    IN  IF \/ start = None \/ start = Some(BadDate) \/ end = Some(BadDate) THEN 0
        ELSE IF end = None
             THEN (IF start[1] <= Today THEN Today - start[1] ELSE 0)
             ELSE (IF start[1] <= end[1] THEN end[1] - start[1] ELSE 0)

\* the days of the valid entries of the snapshot the last invocation read
RECURSIVE SumOfValidDays(_)
SumOfValidDays(n) ==
    IF n = 0 THEN 0 ELSE ValidDays(LastEntries[n]) + SumOfValidDays(n - 1)

\* an entry of that snapshot names a tier-1 company, in any case
TierOneNamed ==
    \E n \in 1..Len(LastEntries) : \E t \in 1..Len(TIER_1_COMPANIES) :
        /\ Get(LastEntries[n], "company") # None
        /\ Lower(Get(LastEntries[n], "company")[1]) = Lower(TIER_1_COMPANIES[t])

\* x without its lowest limb: x in units of 2^-46
Upper(x) == SubSeq(x, 2, 5)

\* the double x is within 2^-46 of days / 365.25
NearYears(x, days) ==
    LET low == DivSteps((8 * days) % 1461, 4)
        exact == Upper(low.q \o <<(8 * days) \div 1461>>)
    IN  \/ Upper(x) = exact
        \/ Upper(x) = Carry([exact EXCEPT ![1] = @ + 1], 1, 0)
        \/ exact = Carry([Upper(x) EXCEPT ![1] = @ + 1], 1, 0)

\* C12: the total calculate_experience_years returns is the sum of the days
\* of the valid entries divided by 365.25, and the experience criterion
\* passes exactly when that sum is at least 4 years (1461 days) or an entry
\* names a tier-1 company.
C12_ExperienceCriterion ==
    ShortlistEvaluated =>
        /\ NearYears(last.reason.experience.years, SumOfValidDays(Len(LastEntries)))
        /\ last.criteria.experience <=>
              (SumOfValidDays(Len(LastEntries)) >= 1461 \/ TierOneNamed)

\* C13: a shortlisting whose outcome is "Not Shortlisted" (the status it
\* wrote, or a criterion that failed) creates no Shortlisted Lead and leaves
\* every Lead as it was.
C13_NotShortlistedTouchesNoLead ==
    (/\ ShortlistEvaluated
     /\ \/ last.status = "Not Shortlisted"
        \/ ~last.criteria.experience
        \/ ~last.criteria.compensation
        \/ ~last.criteria.location)
    =>  /\ last.leadCreated = {} /\ last.leadUpdated = {}
        /\ shortlisted_leads = last.pre.shortlisted_leads

\* C13 witness: an applicant that has a Lead asks for 150 USD, is not
\* shortlisted, and the Lead is as before
C13_Witness ==
    /\ ShortlistEvaluated
    /\ Get(LastSalary, "preferred_rate") = Some(150)
    /\ Get(LastSalary, "currency") = Some("USD")
    /\ last.status = "Not Shortlisted"
    /\ last.reason.compensation.prefix = "FAILED: Compensation - "
    /\ LeadsBefore # {}
    /\ shortlisted_leads = last.pre.shortlisted_leads

\* a shortlisting in which the store accepted the lookup and the status write
StoreAcceptedStatus ==
    /\ last.op = "shortlist"
    /\ last.id \in DOMAIN last.pre.applicants
    /\ <<"lookup", 0>> \notin last.faults
    /\ <<"status_write", 0>> \notin last.faults

\* C14: a shortlisting of an applicant without a snapshot writes the status
\* "Incomplete Data", one of an applicant whose snapshot is not JSON writes
\* "JSON Error"; both return failure, evaluate no criterion and create or
\* update no Lead.
C14_MissingOrMalformedSnapshot ==
    (StoreAcceptedStatus /\ LastSnapshot.kind \in {"none", "malformed"}) =>
        /\ applicants[last.id].status =
              (IF LastSnapshot.kind = "none" THEN "Incomplete Data" ELSE "JSON Error")
        /\ last.ret = "False"
        /\ last.criteria = <<>> /\ last.reason = <<>>
        /\ last.leadCreated = {} /\ last.leadUpdated = {}
        /\ shortlisted_leads = last.pre.shortlisted_leads

\* C14 witness: the snapshot of an applicant that has a Lead is not JSON, and
\* the status "JSON Error" was written
C14_Witness ==
    /\ StoreAcceptedStatus
    /\ LastSnapshot.kind = "malformed"
    /\ LeadsBefore # {}
    /\ applicants[last.id].status = "JSON Error"
    /\ last.ret = "False"

\* the applicant record the last invocation found
LastApplicant == last.pre.applicants[last.id]

\* the last invocation was an evaluation of an applicant with a snapshot
\* whose "LLM Last Evaluated" is not before its "Last Modified"
EvaluationIsCurrent ==
    /\ last.op = "llm-evaluate"
    /\ <<"lookup", 0>> \notin last.faults
    /\ last.id \in DOMAIN last.pre.applicants
    /\ LastApplicant.json.kind # "none"
    /\ LastApplicant.last_modified # None
    /\ LastApplicant.llm_evaluated \notin {None, Some(BadTimestamp)}
    /\ LastApplicant.llm_evaluated[1] >= LastApplicant.last_modified[1]

\* C15: an evaluation of an applicant whose "LLM Last Evaluated" is not
\* before the snapshot's "Last Modified" returns success, calls no LLM and
\* writes nothing; so of two evaluations with no change of the snapshot in
\* between, the second makes no LLM call that ends in a write when the first
\* made one.
C15_NoSecondEvaluationOfASnapshot ==
    /\ EvaluationIsCurrent =>
          /\ last.ret = "True" /\ last.calls = 0 /\ Store = last.pre
    /\ (/\ prev.op = "llm-evaluate" /\ prev.ret = "True" /\ prev.calls > 0
        /\ last.op = "llm-evaluate" /\ last.id = prev.id)
       => ~(last.calls > 0 /\ last.ret = "True")

\* the kinds of outcome that are errors of the API
ApiErrors == {"status_error", "connection_error"}

\* C16: an evaluation makes at most MAX_RETRIES LLM calls, each but the
\* first after an error of the API; it sleeps INITIAL_BACKOFF_DELAY * 2^(k-1)
\* before the k-th retry and not after the last attempt; and when every
\* attempt ends in an error of the API it returns failure, raises nothing
\* and writes nothing.
C16_BoundedRetriesWithBackoff ==
    last.op = "llm-evaluate" =>
        /\ last.calls <= MAX_RETRIES
        /\ \A k \in 2..last.calls : last.script[k - 1].kind \in ApiErrors
        /\ last.calls >= 1 => Len(last.sleeps) = last.calls - 1
        /\ \A k \in 1..Len(last.sleeps) :
              last.sleeps[k] = INITIAL_BACKOFF_DELAY * 2^(k - 1)
        /\ (/\ last.calls >= 1
            /\ \A k \in 1..last.calls : last.script[k].kind \in ApiErrors)
           => /\ last.ret = "False"
              /\ Store = last.pre

\* C17: when an LLM call raises an error that is not an error of the API,
\* the evaluation returns failure at once: that call is its last, no sleep
\* follows it, and nothing is written.
C17_OtherErrorsAbort ==
    last.op = "llm-evaluate" =>
        \A k \in 1..last.calls :
            last.script[k].kind = "other_error" =>
                /\ k = last.calls
                /\ last.ret = "False"
                /\ Len(last.sleeps) = k - 1
                /\ Store = last.pre

\* C17 witness: the second call, made after an error of the API and a sleep,
\* raised another error and the evaluation returned failure
C17_Witness ==
    /\ last.op = "llm-evaluate"
    /\ last.calls = 2
    /\ last.script[1].kind = "status_error"
    /\ last.script[2].kind = "other_error"
    /\ last.sleeps = <<INITIAL_BACKOFF_DELAY>>
    /\ last.ret = "False"

\* the steps of the `all` command, in order
AllSteps == <<"compress", "shortlist", "llm-evaluate">>

\* C18: the `all` command runs compress, shortlist and llm-evaluate in that
\* order and nothing else; a step runs only if every step before it returned
\* success; the first step that fails ends the run with a non-zero exit
\* code, and a run of three successful steps ends with exit code 0.
C18_AllRunsInOrderAndStopsAtFailure ==
    /\ Len(all_run.steps) <= 3
    /\ \A k \in 1..Len(all_run.steps) :
          /\ all_run.steps[k].step = AllSteps[k]
          /\ k < Len(all_run.steps) => all_run.steps[k].ret = "True"
    /\ ~all_run.done => \A k \in 1..Len(all_run.steps) : all_run.steps[k].ret = "True"
    /\ (all_run.done /\ all_run.steps # <<>>) =>
          LET final == all_run.steps[Len(all_run.steps)]
          IN  /\ final.ret = "True" => Len(all_run.steps) = 3 /\ all_run.exit = 0
              /\ final.ret # "True" => all_run.exit # 0
    /\ last.cmd = "all" =>
          /\ all_run.steps # <<>>
          /\ last.op = all_run.steps[Len(all_run.steps)].step
          /\ last.id = all_run.id

\* C18 witness: a run of `all` went through the three steps and ended with
\* exit code 0, the evaluation having called the LLM
C18_Witness ==
    /\ all_run.done
    /\ Len(all_run.steps) = 3
    /\ all_run.exit = 0
    /\ last.cmd = "all" /\ last.op = "llm-evaluate" /\ last.calls > 0

-----------------------------------------------------------------------------
\* C19: the experience array a compression writes holds the entries of the
\* Work Experience records the store returned, in the order of the
\* applicant's link field whatever the order of the store's answer; a linked
\* record the answer lacks has no entry and the others keep their order.
LinksReturned ==
    SelectSeq(LastApplicant.work, LAMBDA link_id : link_id \in Range(last.returned))

C19_ExperienceInLinkOrder ==
    (/\ last.op = "compress" /\ last.ret = "True"
     /\ LastApplicant.work # <<>> /\ <<"we_fetch", 0>> \notin last.faults) =>
        /\ Range(last.returned) \subseteq Range(LastApplicant.work)
        /\ applicants[last.id].json.kind = "doc"
        /\ applicants[last.id].json.doc.experience =
              [n \in 1..Len(LinksReturned) |->
                 ExperienceEntry(last.pre.work_experience[LinksReturned[n]])]

\* C19 witness: of three linked records the store returned the third and then
\* the first, and the array holds the first and then the third
C19_Witness ==
    /\ last.op = "compress" /\ last.ret = "True"
    /\ Len(LastApplicant.work) = 3
    /\ last.returned = <<LastApplicant.work[3], LastApplicant.work[1]>>
    /\ applicants[last.id].json.doc.experience =
          <<ExperienceEntry(last.pre.work_experience[LastApplicant.work[1]]),
            ExperienceEntry(last.pre.work_experience[LastApplicant.work[3]])>>
    /\ last.pre.work_experience[LastApplicant.work[1]] #
          last.pre.work_experience[LastApplicant.work[3]]

-----------------------------------------------------------------------------
\* C20: a compression returns failure only when the applicant is not found
\* or the write of the snapshot fails.  When the applicant is found and the
\* write succeeds the call returns success, and in the written snapshot a
\* section whose fetch failed (or that has no linked record) is empty while
\* every other section holds what the store holds for it.
LastSections == applicants[last.id].json.doc

SectionOf(links, tbl, col, failed) ==
    IF links = <<>> \/ failed THEN EmptyObj
    ELSE [k \in DOMAIN col |-> FieldGet(tbl[links[1]], col[k])]

C20_OnlyLookupAndWriteFail ==
    last.op = "compress" =>
        /\ last.ret = "False" =>
              \/ last.id \notin DOMAIN last.pre.applicants
              \/ <<"write", 0>> \in last.faults
        /\ (/\ last.id \in DOMAIN last.pre.applicants
            /\ last.faults \cap {<<"lookup", 0>>, <<"write", 0>>} = {}) =>
              /\ last.ret = "True"
              /\ applicants[last.id].json.kind = "doc"
              /\ LastSections.personal =
                    SectionOf(LastApplicant.personal, last.pre.personal_details,
                              PersonalCol, <<"personal_get", 0>> \in last.faults)
              /\ LastSections.salary =
                    SectionOf(LastApplicant.salary, last.pre.salary_preferences,
                              SalaryCol, <<"salary_get", 0>> \in last.faults)
              /\ LastSections.experience =
                    IF <<"we_fetch", 0>> \in last.faults THEN <<>>
                    ELSE [n \in 1..Len(LinksReturned) |->
                            ExperienceEntry(
                                last.pre.work_experience[LinksReturned[n]])]

\* C20 witness: the fetch of the linked Salary Preferences record failed; the
\* call returned success and wrote a snapshot whose salary section is empty
\* and whose other two sections are filled
C20_Witness ==
    /\ last.op = "compress" /\ last.ret = "True"
    /\ LastApplicant.salary # <<>>
    /\ <<"salary_get", 0>> \in last.faults
    /\ LastSections.salary = EmptyObj
    /\ LastSections.personal # EmptyObj
    /\ LastSections.experience # <<>>

-----------------------------------------------------------------------------
\* C21: only a compression changes an applicant's Compressed JSON field; a
\* compression, a shortlisting and an LLM evaluation leave the three child
\* tables as they were; and no invocation removes a Personal Details, a
\* Salary Preferences or a Shortlisted Lead record.
SnapshotOf(table) == [a \in DOMAIN table |-> table[a].json]

C21_LifecycleFrame ==
    last.op # "none" =>
        /\ last.op # "compress" =>
              SnapshotOf(applicants) = SnapshotOf(last.pre.applicants)
        /\ last.op # "decompress" =>
              /\ personal_details = last.pre.personal_details
              /\ work_experience = last.pre.work_experience
              /\ salary_preferences = last.pre.salary_preferences
        /\ DOMAIN last.pre.personal_details \subseteq DOMAIN personal_details
        /\ DOMAIN last.pre.salary_preferences \subseteq DOMAIN salary_preferences
        /\ DOMAIN last.pre.shortlisted_leads \subseteq DOMAIN shortlisted_leads

\* C21 witness: a shortlisting updated the Lead an earlier one had created;
\* the snapshot and the child records are those of before
C21_Witness ==
    /\ last.op = "shortlist" /\ last.ret = "True"
    /\ last.leadUpdated # {}
    /\ last.leadUpdated \subseteq DOMAIN last.pre.shortlisted_leads
    /\ applicants[last.id].json = LastApplicant.json
    /\ work_experience = last.pre.work_experience
    /\ work_experience # <<>>

-----------------------------------------------------------------------------
\* C22: when the Score lines of the response hold no integer, the score is
\* recorded as absent, the summary, the issues and the follow-ups are what
\* they are for the same response with an integer score, and the evaluation
\* writes the LLM fields and returns success.
LastResponse ==
    IF last.op = "llm-evaluate" /\ last.calls > 0
       /\ last.script[last.calls].kind = "response"
    THEN last.script[last.calls].content ELSE <<>>

ScoreLines(r) == {n \in 1..Len(r) : r[n].head = "score:"}

WithScore(r, score_str) ==
    [n \in 1..Len(r) |->
        IF r[n].head = "score:" THEN Line("score:", score_str, "Score: 8") ELSE r[n]]

C22_NonIntegerScoreIsAbsent ==
    (/\ ScoreLines(LastResponse) # {}
     /\ \A n \in ScoreLines(LastResponse) : LastResponse[n].rest \notin {"8", "10"}
     /\ last.faults = {}) =>
        /\ last.ret = "True"
        /\ applicants[last.id].llm.score = None
        /\ applicants[last.id].llm.summary =
              parse_llm_response(WithScore(LastResponse, "8")).summary
        /\ applicants[last.id].llm.follow_ups =
              parse_llm_response(WithScore(LastResponse, "8")).follow_ups
        /\ parse_llm_response(LastResponse).issues =
              parse_llm_response(WithScore(LastResponse, "8")).issues

\* C22 witness: a response with a summary, the score "8/10" and a follow-up
\* was written with an absent score
C22_Witness ==
    /\ last.op = "llm-evaluate" /\ last.ret = "True"
    /\ \E n \in ScoreLines(LastResponse) : LastResponse[n].rest = "8/10"
    /\ applicants[last.id].llm.score = None
    /\ applicants[last.id].llm.summary # <<>>
    /\ applicants[last.id].llm.follow_ups # <<>>

-----------------------------------------------------------------------------
\* C23: a section is open from its header line to the next header line.  The
\* summary written is the text of the last Summary header followed by the
\* lines of its section, and the follow-ups written are all the bullet lines
\* of the Follow-Ups sections; every other line without a header is dropped.
Headers == {"summary:", "score:", "issues:", "follow-ups:"}

\* the header of the section that line n of r lies in
OpenSection(r, n) ==
    LET before == {m \in 1..(n - 1) : r[m].head \in Headers}
    IN  IF before = {} THEN "none" ELSE r[MaxOf(before)].head

\* the texts of the lines of r up to the n-th that lie in a section of the
\* given header and have one of the given heads
RECURSIVE SectionLines(_, _, _, _)
SectionLines(r, n, header, heads) ==
    IF n = 0 THEN <<>>
    ELSE LET before == SectionLines(r, n - 1, header, heads)
         IN  IF r[n].head \in heads /\ OpenSection(r, n) = header
             THEN Append(before, r[n].text) ELSE before

SummaryOf(r) ==
    LET starts == {m \in 1..Len(r) : r[m].head = "summary:"}
        from == MaxOf(starts)
        tail == SubSeq(r, from, Len(r))
    IN  IF starts = {} THEN <<>>
        ELSE (IF r[from].rest = "" THEN <<>> ELSE <<r[from].rest>>)
             \o SectionLines(tail, Len(tail), "summary:", {"bullet", "text"})

FollowUpsOf(r) == SectionLines(r, Len(r), "follow-ups:", {"bullet"})

C23_SectionsStayOpenUntilTheNextHeader ==
    (LastResponse # <<>> /\ last.ret = "True") =>
        /\ applicants[last.id].llm.summary = SummaryOf(LastResponse)
        /\ applicants[last.id].llm.follow_ups = FollowUpsOf(LastResponse)

-----------------------------------------------------------------------------
\* C24: two invocations for different applicants that share no child record,
\* their store calls interleaved in any way, leave the store holding what it
\* holds after the two ran one after the other, and return the same results.
BothReturned ==
    /\ conc.phase = "interleaved"
    /\ \A i \in {1, 2} : conc.procs[i].pc = "done"

C24_InterleavingsAgreeWithSequentialRuns ==
    BothReturned =>
        /\ View(Store) = conc.expected
        /\ \A i \in {1, 2} : conc.procs[i].ret = conc.alone[i]

\* C24 witness: a decompression that created and deleted records and a
\* shortlisting that wrote a Lead have both returned, and each made a store
\* call while the other was under way
C24_Witness ==
    /\ BothReturned
    /\ conc.mixed
    /\ conc.procs[1].op = "decompress" /\ conc.procs[1].ret = "True"
    /\ conc.procs[2].op = "shortlist" /\ conc.procs[2].ret = "True"
    /\ View(Store).work_experience # View(conc.start).work_experience
    /\ View(Store).shortlisted_leads # View(conc.start).shortlisted_leads

-----------------------------------------------------------------------------
\* C25: an evaluation of an applicant whose Last Modified or LLM Last
\* Evaluated value is no timestamp does not skip: it calls the LLM.
UnparsableTimestamp ==
    /\ last.op = "llm-evaluate"
    /\ <<"lookup", 0>> \notin last.faults
    /\ last.id \in DOMAIN last.pre.applicants
    /\ LastApplicant.json.kind # "none"
    /\ \/ LastApplicant.last_modified = Some(BadTimestamp)
       \/ LastApplicant.llm_evaluated = Some(BadTimestamp)

C25_UnparsableTimestampIsEvaluated ==
    UnparsableTimestamp => last.calls >= 1

-----------------------------------------------------------------------------
\* C26: a shortlisting returns a failure result only when the applicant is
\* not found, the snapshot is missing or malformed, or the Lead write fails;
\* one that wrote the status "Not Shortlisted" returns success, and the `all`
\* command then goes on to the LLM evaluation.
C26_NotShortlistedIsSuccess ==
    (last.op = "shortlist" /\ last.ret # "raise") =>
        /\ last.ret # "True" =>
              \/ last.id \notin DOMAIN last.pre.applicants
              \/ LastApplicant.json.kind \in {"none", "malformed"}
              \/ <<"lead_write", 0>> \in last.faults
        /\ last.status = "Not Shortlisted" =>
              /\ last.ret = "True"
              /\ last.cmd = "all" => ~all_run.done /\ Len(all_run.steps) = 2

-----------------------------------------------------------------------------
\* C27: after a shortlisting that returned, an applicant whose status is
\* "Shortlisted" is referenced by a Lead record that holds the snapshot the
\* shortlisting evaluated, also when the write of the Lead raised.
ShortlistReturned ==
    /\ last.op = "shortlist" /\ last.ret # "raise"
    /\ last.id \in DOMAIN applicants

C27_ShortlistedHasItsLead ==
    (ShortlistReturned /\ applicants[last.id].status = "Shortlisted") =>
        \E l \in LeadsOf(last.id) : shortlisted_leads[l].json = LastApplicant.json

-----------------------------------------------------------------------------
\* C28: two shortlistings of the same snapshot at the same date give the same
\* status and the same Score Reason: when a shortlisting updates the Lead that
\* an earlier one wrote for the snapshot, the Lead's Score Reason stays what
\* it was, and so does the status the earlier one wrote.
SameSnapshotAgain(l) ==
    /\ last.op = "shortlist"
    /\ l \in last.leadUpdated
    /\ last.pre.shortlisted_leads[l].json = LastApplicant.json

C28_ShortlistingIsDeterministic ==
    \A l \in DOMAIN shortlisted_leads :
        SameSnapshotAgain(l) =>
            /\ shortlisted_leads[l].reason = last.pre.shortlisted_leads[l].reason
            /\ LastApplicant.status \in {"", applicants[last.id].status}


====
